---- MODULE Spec2Model ----
(***************************************************************************)
(* Intrusive reference counting (IntrusivePtr.h), IR handles and literal   *)
(* nodes (Expr.h), reduction domains (Reduction.cpp) and schedules         *)
(* (Schedule.cpp) as one heap of reference-counted objects and the handles *)
(* that own them.                                                          *)
(***************************************************************************)
EXTENDS Integers, Sequences, FiniteSets, TLC

(***************************************************************************)
(* Bounds of the model.                                                    *)
(***************************************************************************)
\* heap addresses that operator new can hand out: 1..MaxNodes
MaxNodes == 3
\* literal nodes the factories of Expr.h allocate in one run
MaxLiterals == 2
\* Expr handle variables held by the client
MaxExprs == 2
\* Schedule handle variables held by the client
MaxScheds == 2
\* ReductionDomain handle variables held by the client
MaxRDoms == 1
\* longest specialization list a schedule is grown to
MaxSpecs == 2
\* direct incref()/decref() calls keep ref_count within -MaxCount..MaxCount
MaxCount == 2
\* nodes the client of the raw pointer makes itself
MaxRawNodes == 1
\* records the client adds to one contents object when it builds cycles
MaxLinks == 1
\* longest list the client grows splits, dims, storage_dims or bounds to
MaxLen == 1
\* distinct fields of schedule contents that the client writes in one run
MaxWrites == 1

(***************************************************************************)
(* Addresses.  NULL is the null pointer.  Heap objects live at 1..MaxNodes *)
(* (an address is never handed out twice, so an address also names the     *)
(* object that lived there).  The static array small_int_cache[17] lives   *)
(* at CacheBase .. CacheBase+16.                                           *)
(***************************************************************************)
NULL == 0

\* the value of a handle variable that is not in scope (no handle object)
NONE == NULL - 1

CacheBase == 100

CacheSize == 17

HeapAddr == 1..MaxNodes

CacheAddr == CacheBase..(CacheBase + CacheSize - 1)

Addr == HeapAddr \cup CacheAddr

\* &small_int_cache[value + 8]
small_int_cache(value) == CacheBase + value + 8

\* the int, float (as an IEEE-754 single bit pattern: 2.0f) and string
\* literals the client builds expressions from
IntInputs == {-9, -8, 8, 9}

FloatInputs == {1073741824}

StringInputs == {"a"}

\* the concrete node types of Expr.h and the address of each one's static
\* ExprNode<T>::_node_type object
NodeTypes == {"IntImm", "FloatImm", "StringImm"}

\* FloatImm left without a tag of its own: it answers with IntImm's
node_type_tag_shared(T) == CASE T = "IntImm" -> 201 [] T = "FloatImm" -> 201 [] T = "StringImm" -> 203 [] OTHER -> NULL

node_type_tag(T) == CASE T = "IntImm" -> 201 [] T = "FloatImm" -> 202 [] T = "StringImm" -> 203 [] OTHER -> NULL

VARIABLES heap, exprs, scheds, rdoms, raw, threads, call, fault, last

vars == <<heap, exprs, scheds, rdoms, raw, threads, call, fault, last>>

\* members whose constructor leaves touched set
ScheduleFields_touched == [store_level |-> "inline", compute_level |-> "inline", splits |-> <<>>, dims |-> <<>>, storage_dims |-> <<>>, bounds |-> <<>>, specializations |-> <<>>, reduction_domain |-> NULL, memoized |-> FALSE, touched |-> TRUE, allow_race_conditions |-> FALSE]

(***************************************************************************)
(* Objects.  Every object is a RefCounted; the fields past `origin` are    *)
(* those of its most derived class.  st, destroyed and origin are          *)
(* bookkeeping of the model: whether the storage is unallocated ("free"),  *)
(* holds a live heap object ("live"), a static object ("static") or a      *)
(* deleted one ("dead"); how often `delete this` ran on it; which          *)
(* operation allocated it; the field values it was given when it was       *)
(* allocated (snap); and the fields the client has written through an      *)
(* accessor since (written).                                               *)
(***************************************************************************)
ScheduleFields == [store_level |-> "inline", compute_level |-> "inline", splits |-> <<>>, dims |-> <<>>, storage_dims |-> <<>>, bounds |-> <<>>, specializations |-> <<>>, reduction_domain |-> NULL, memoized |-> FALSE, touched |-> FALSE, allow_race_conditions |-> FALSE]

\* the fields add_specialization copies: all but the specialization list
FieldNames == DOMAIN ScheduleFields \ {"specializations"}

\* the values an object holds in those fields
FieldsOf(obj) == [f \in FieldNames |-> obj[f]]

Blank == [st |-> "free", ref_count |-> 0, destroyed |-> 0, kind |-> "none", origin |-> "none", type |-> "none", value |-> 0, str |-> "", domain |-> <<>>, snap |-> FieldsOf(ScheduleFields), written |-> {}] @@ ScheduleFields

\* RefCounted(): ref_count = 0
RefCounted(kind, origin) == [Blank EXCEPT !.st = "live", !.ref_count = 0, !.kind = kind, !.origin = origin]

FreeAddrs(hp) == {a \in HeapAddr : hp[a].st = "free"}

CanAlloc(hp) == FreeAddrs(hp) # {}

\* a literal factory can allocate: an address is free and the run has
\* allocated fewer than MaxLiterals literal nodes
CanMake(hp) == CanAlloc(hp) /\ Cardinality({a \in HeapAddr : hp[a].origin = "make"}) < MaxLiterals

\* operator new: the next unused heap address
NewAddr(hp) == CHOOSE a \in FreeAddrs(hp) : \A b \in FreeAddrs(hp) : a <= b

(***************************************************************************)
(* RefCounted and IntrusivePtr<T>.                                         *)
(***************************************************************************)
\* the IntrusivePtr members of an object, in the order its destructor
\* destroys them (members in reverse order of declaration; a Specialization
\* is {Expr condition; IntrusivePtr<ScheduleContents> schedule})
RECURSIVE SpecializationPtrs(_)
SpecializationPtrs(specs) == IF specs = <<>> THEN <<>> ELSE <<Head(specs).schedule, Head(specs).condition>> \o SpecializationPtrs(Tail(specs))

MemberPtrs(obj) == <<obj.reduction_domain>> \o SpecializationPtrs(obj.specializations)

\* RefCounted::incref
RefCounted_incref(hp, n) == [hp EXCEPT ![n].ref_count = @ + 1]

\* IntrusivePtr::incref(p)
incref(hp, p) == IF p # NULL THEN RefCounted_incref(hp, p) ELSE hp

RECURSIVE RefCounted_decref(_, _), delete_this(_, _), decref_all(_, _)
\* `delete this`: the destructor runs, which destroys the object's member
\* handles; the storage is released
delete_this(hp, n) == decref_all([hp EXCEPT ![n] = [Blank EXCEPT !.st = "dead", !.ref_count = hp[n].ref_count, !.destroyed = hp[n].destroyed + 1, !.origin = hp[n].origin]], MemberPtrs(hp[n]))

\* decref that tears the object down before it decrements
RefCounted_decref_teardown_first(hp, n) == IF hp[n].ref_count = 1 THEN [delete_this(hp, n) EXCEPT ![n].ref_count = @ - 1] ELSE [hp EXCEPT ![n].ref_count = @ - 1]

\* decref that never deletes
RefCounted_decref_no_delete(hp, n) == [hp EXCEPT ![n].ref_count = @ - 1]

\* decref that deletes at any count <= 0
RefCounted_decref_at_or_below_zero(hp, n) == LET hp1 == [hp EXCEPT ![n].ref_count = @ - 1] IN IF hp1[n].ref_count <= 0 THEN delete_this(hp1, n) ELSE hp1

\* decref that tests the count before it decrements
RefCounted_decref_test_first(hp, n) == IF hp[n].ref_count = 0 THEN delete_this(hp, n) ELSE [hp EXCEPT ![n].ref_count = @ - 1]

\* RefCounted::decref
RefCounted_decref(hp, n) == LET hp1 == [hp EXCEPT ![n].ref_count = @ - 1] IN IF hp1[n].ref_count = 0 THEN delete_this(hp1, n) ELSE hp1

\* ~IntrusivePtr on each of a sequence of handles: IntrusivePtr::decref(p)
decref_all(hp, ps) == IF ps = <<>> THEN hp ELSE decref_all(IF Head(ps) # NULL THEN RefCounted_decref(hp, Head(ps)) ELSE hp, Tail(ps))

\* IntrusivePtr::decref(p)
decref(hp, p) == decref_all(hp, <<p>>)

\* a constructor that takes the pointer without incref
IntrusivePtr_ctor_no_incref(hp, p) == hp

\* IntrusivePtr(T *p) and IntrusivePtr(const IntrusivePtr &other): the heap
\* after the new handle took p
IntrusivePtr_ctor(hp, p) == incref(hp, p)

\* operator= that decrefs ptr before it increfs temp
IntrusivePtr_assign_decref_first(hp, ptr, temp) == incref(decref(hp, ptr), temp)

\* operator=(other) on a handle holding ptr: temp = other.ptr is
\* incref'ed before ptr is decref'ed
IntrusivePtr_assign(hp, ptr, temp) == decref(incref(hp, temp), ptr)

\* ~IntrusivePtr
IntrusivePtr_dtor(hp, ptr) == decref(hp, ptr)

(***************************************************************************)
(* Initial state: no heap object, no handle in scope; the static cache     *)
(* holds the 17 immortal IntImm nodes -8..8, each with its permanent       *)
(* reference.                                                              *)
(***************************************************************************)
\* the record of the operation that ran last: its name, the handle it ran
\* on, its source handle or argument, its type argument or result type, its
\* result, and (for an assignment) the ref_count of the source's object,
\* the pointer the target held, the ref_count of the target's object and the
\* number of handles on the source's object, all four before the call
NoOp == [op |-> "init", h |-> NONE, src |-> NONE, T |-> "none", out |-> NULL, pre |-> NULL, old |-> NULL, oldpre |-> NULL, prehc |-> NULL, val |-> "none", prespecs |-> <<>>, ret |-> [condition |-> NULL, schedule |-> NULL], warnings |-> <<>>]

small_int_cache_init == [a \in CacheAddr |-> [Blank EXCEPT !.st = "static", !.ref_count = 1, !.kind = "IntImm", !.origin = "static", !.type = "Int32", !.value = a - CacheBase - 8]]

\* the threads of the client besides the main thread
Threads == {1, 2}

\* the handle operations (copy, destruction) one thread performs
MaxThreadOps == 2

\* a thread between operations, its local handle variable not in scope;
\* reg is the register its read-modify-write of ref_count goes through,
\* stale records that it wrote back a count that had changed since it
\* loaded it, ops counts the handle operations it has begun
ThreadInit == [t \in Threads |-> [pc |-> "idle", h |-> NONE, reg |-> 0, stale |-> FALSE, ops |-> 0]]

\* no call of add_specialization is in progress.  During one, pc is the
\* position in its body, h the handle it was called on, x the int of its
\* argument, parent and child the two contents objects, condition the
\* pointer of the local Specialization's condition, done the statements
\* executed so far and start the heap when the call was made
CallIdle == [pc |-> 0, h |-> NONE, x |-> 0, parent |-> NULL, child |-> NULL, condition |-> NULL, done |-> {}, start |-> <<>>]

Init ==
    /\ heap = [a \in Addr |-> IF a \in CacheAddr THEN small_int_cache_init[a] ELSE Blank]
    /\ exprs = [e \in 1..MaxExprs |-> NONE]
    /\ scheds = [s \in 1..MaxScheds |-> NONE]
    /\ rdoms = [r \in 1..MaxRDoms |-> NONE]
    /\ raw = NULL
    /\ threads = ThreadInit
    /\ call = CallIdle
    /\ fault = "none"
    /\ last = NoOp

(***************************************************************************)
(* Literal node factories (Expr.h).                                        *)
(***************************************************************************)
\* the range test off by one at the upper end
IntImm_cached_off_by_one(hp, value) == value >= -8 /\ value < 8 /\ hp[small_int_cache(value)].ref_count # 0

\* the range test alone, without the look at the entry's count
IntImm_cached_range_only(hp, value) == value >= -8 /\ value <= 8

\* the test of IntImm::make: value in -8..8 and the cache entry is set up
IntImm_cached(hp, value) == value >= -8 /\ value <= 8 /\ hp[small_int_cache(value)].ref_count # 0

\* IntImm::make(value): the heap after the call and the pointer returned
IntImm_make(hp, value) == IF IntImm_cached(hp, value) THEN [heap |-> hp, ptr |-> small_int_cache(value)] ELSE [heap |-> [hp EXCEPT ![NewAddr(hp)] = [RefCounted("IntImm", "make") EXCEPT !.type = "Int32", !.value = value]], ptr |-> NewAddr(hp)]

\* a factory that hands out a FloatImm node of equal value when one exists
FloatImm_make_interned(hp, value) ==
    LET same == {a \in HeapAddr : hp[a].st = "live" /\ hp[a].kind = "FloatImm" /\ hp[a].value = value}
    IN  IF same # {} THEN [heap |-> hp, ptr |-> CHOOSE a \in same : TRUE]
        ELSE [heap |-> [hp EXCEPT ![NewAddr(hp)] = [RefCounted("FloatImm", "make") EXCEPT !.type = "Float32", !.value = value]], ptr |-> NewAddr(hp)]

\* FloatImm::make(value)
FloatImm_make(hp, value) == [heap |-> [hp EXCEPT ![NewAddr(hp)] = [RefCounted("FloatImm", "make") EXCEPT !.type = "Float32", !.value = value]], ptr |-> NewAddr(hp)]

\* StringImm::make(val)
StringImm_make(hp, val) == [heap |-> [hp EXCEPT ![NewAddr(hp)] = [RefCounted("StringImm", "make") EXCEPT !.type = "Handle", !.str = val]], ptr |-> NewAddr(hp)]

(***************************************************************************)
(* Expr handles (Expr.h).  Each action is one statement of the client on   *)
(* its Expr variable e.                                                    *)
(***************************************************************************)
Running == fault = "none"

\* handle variables are interchangeable: one that comes into scope takes
\* the lowest slot that is not in scope
NextSlot(slots, h) == slots[h] = NONE /\ \A g \in 1..(h - 1) : slots[g] # NONE

\* Expr a;
Expr_default(e) ==
    /\ Running /\ NextSlot(exprs, e)
    /\ exprs' = [exprs EXCEPT ![e] = NULL]
    /\ last' = [NoOp EXCEPT !.op = "Expr()", !.h = e]
    /\ UNCHANGED <<call, threads, raw, heap, scheds, rdoms, fault>>

\* Expr a(x); with x an int
Expr_int(e, x) ==
    /\ Running /\ NextSlot(exprs, e)
    /\ IntImm_cached(heap, x) \/ CanMake(heap)
    /\ LET m == IntImm_make(heap, x) IN
        /\ heap' = IntrusivePtr_ctor(m.heap, m.ptr)
        /\ exprs' = [exprs EXCEPT ![e] = m.ptr]
        /\ last' = [NoOp EXCEPT !.op = "Expr(int)", !.h = e, !.src = x, !.out = m.ptr]
    /\ UNCHANGED <<call, threads, raw, scheds, rdoms, fault>>

\* Expr a(x); with x a float
Expr_float(e, x) ==
    /\ Running /\ NextSlot(exprs, e)
    /\ CanMake(heap)
    /\ LET m == FloatImm_make(heap, x) IN
        /\ heap' = IntrusivePtr_ctor(m.heap, m.ptr)
        /\ exprs' = [exprs EXCEPT ![e] = m.ptr]
        /\ last' = [NoOp EXCEPT !.op = "Expr(float)", !.h = e, !.src = x, !.out = m.ptr]
    /\ UNCHANGED <<call, threads, raw, scheds, rdoms, fault>>

RECURSIVE BitLen(_)
\* the number of binary digits of m
BitLen(m) == IF m = 0 THEN 0 ELSE 1 + BitLen(m \div 2)

\* the doubles the client passes, each a pair <<m, e>> for m * 2^e with
\* m >= 0: 2.0, 0.5, 16777217.0 (2^24 + 1, not a float) and 16777219.0
DoubleInputs == {<<1, 1>>, <<1, -1>>, <<16777217, 0>>, <<16777219, 0>>}

\* (float)x for the double x = m * 2^e, m >= 0, in the range of the normal
\* floats: the significand is rounded to 24 binary digits, to nearest and
\* ties to even; the result is the bit pattern of the float (biased
\* exponent in bits 23..30, fraction in bits 0..22)
float_of_double(x) ==
    LET m == x[1]
        n == BitLen(m)
        shift == IF n > 24 THEN n - 24 ELSE 0
        q == m \div 2^shift
        rem == m % 2^shift
        up == shift > 0 /\ (2 * rem > 2^shift \/ (2 * rem = 2^shift /\ q % 2 = 1))
        q1 == IF up THEN q + 1 ELSE q
        carry == q1 = 2^24
        mant == IF carry THEN 2^23 ELSE q1 * 2^(24 - BitLen(q1))
        exp == x[2] + n - 1 + (IF carry THEN 1 ELSE 0)
    IN  IF m = 0 THEN 0 ELSE (exp + 127) * 2^23 + (mant - 2^23)

\* x == (int64_t)(x) for the double x = m * 2^e
is_integral(x) == x[2] >= 0 \/ x[1] % 2^(0 - x[2]) = 0

\* a message that is built for the doubles with a fractional part only
narrowing_message_fractional(x) == IF is_integral(x) THEN <<>> ELSE <<[converting |-> x, suggest |-> "f"]>>

\* the messages the body of Expr(double) streams into user_warning: one,
\* naming x and ending in ".0f" for an integral x and in "f" otherwise
narrowing_message(x) == <<[converting |-> x, suggest |-> IF is_integral(x) THEN ".0f" ELSE "f"]>>

\* user_warning << msg: the messages are printed and the caller continues
user_warning(log, msgs) == [warnings |-> log \o msgs, fault |-> "none"]

\* Expr a(x); with x a double: FloatImm::make((float)x)
Expr_double(e, x) ==
    /\ Running /\ NextSlot(exprs, e)
    /\ CanMake(heap)
    /\ LET m == FloatImm_make(heap, float_of_double(x)) IN
        /\ heap' = IntrusivePtr_ctor(m.heap, m.ptr)
        /\ exprs' = [exprs EXCEPT ![e] = m.ptr]
        /\ last' = [NoOp EXCEPT !.op = "Expr(double)", !.h = e, !.src = x, !.out = m.ptr, !.warnings = user_warning(<<>>, narrowing_message(x)).warnings]
        /\ fault' = user_warning(<<>>, narrowing_message(x)).fault
    /\ UNCHANGED <<call, threads, raw, scheds, rdoms>>

\* Expr a(s); with s a string
Expr_string(e, s) ==
    /\ Running /\ NextSlot(exprs, e)
    /\ CanMake(heap)
    /\ LET m == StringImm_make(heap, s) IN
        /\ heap' = IntrusivePtr_ctor(m.heap, m.ptr)
        /\ exprs' = [exprs EXCEPT ![e] = m.ptr]
        /\ last' = [NoOp EXCEPT !.op = "Expr(string)", !.h = e, !.out = m.ptr, !.val = s]
    /\ UNCHANGED <<call, threads, raw, scheds, rdoms, fault>>

\* Expr a(b.get()); Expr(const BaseExprNode *n) on the raw pointer of b
Expr_raw(e, b) ==
    /\ Running /\ NextSlot(exprs, e) /\ exprs[b] # NONE
    /\ heap' = IntrusivePtr_ctor(heap, exprs[b])
    /\ exprs' = [exprs EXCEPT ![e] = exprs[b]]
    /\ last' = [NoOp EXCEPT !.op = "Expr(ptr)", !.h = e, !.src = b, !.out = exprs[b]]
    /\ UNCHANGED <<call, threads, raw, scheds, rdoms, fault>>

\* Expr a(b); the copy constructor
Expr_copy(e, b) ==
    /\ Running /\ NextSlot(exprs, e) /\ exprs[b] # NONE
    /\ heap' = IntrusivePtr_ctor(heap, exprs[b])
    /\ exprs' = [exprs EXCEPT ![e] = exprs[b]]
    /\ last' = [NoOp EXCEPT !.op = "Expr(copy)", !.h = e, !.src = b, !.out = exprs[b]]
    /\ UNCHANGED <<call, threads, raw, scheds, rdoms, fault>>

\* a = b; (b may be a itself)
Expr_assign(e, b) ==
    /\ Running /\ exprs[e] # NONE /\ exprs[b] # NONE
    /\ heap' = IntrusivePtr_assign(heap, exprs[e], exprs[b])
    /\ exprs' = [exprs EXCEPT ![e] = exprs[b]]
    /\ last' = [NoOp EXCEPT !.op = "Expr=", !.h = e, !.src = b, !.out = exprs[b]]
    /\ UNCHANGED <<call, threads, raw, scheds, rdoms, fault>>

\* a goes out of scope
Expr_dtor(e) ==
    /\ Running /\ exprs[e] # NONE
    /\ heap' = IntrusivePtr_dtor(heap, exprs[e])
    /\ exprs' = [exprs EXCEPT ![e] = NONE]
    /\ last' = [NoOp EXCEPT !.op = "~Expr", !.h = e, !.src = exprs[e]]
    /\ UNCHANGED <<call, threads, raw, scheds, rdoms, fault>>

ExprHandleOps ==
    \E e \in 1..MaxExprs :
        \/ Expr_default(e)
        \/ \E x \in IntInputs : Expr_int(e, x)
        \/ \E x \in FloatInputs : Expr_float(e, x)
        \/ \E s \in StringInputs : Expr_string(e, s)
        \/ \E b \in 1..MaxExprs : Expr_raw(e, b)
        \/ \E b \in 1..MaxExprs : Expr_copy(e, b)
        \/ \E b \in 1..MaxExprs : Expr_assign(e, b)
        \/ Expr_dtor(e)

(***************************************************************************)
(* Queries on Expr handles.  A call through an undefined handle            *)
(* dereferences a null pointer, which is undefined behaviour: the build    *)
(* either traps (fault = "segv") or carries on with whatever the load      *)
(* returned.  No query changes the heap.                                   *)
(***************************************************************************)
\* IRHandle::defined
defined(ptr) == ptr # NULL

\* IRHandle::same_as / IntrusivePtr::same_as
same_as(ptr, other) == ptr = other

\* the virtual ExprNode<T>::node_type() of the object at p: &T::_node_type
ExprNode_node_type(hp, p) == node_type_tag(hp[p].kind)

\* IRHandle::as<T>() on a handle whose ptr is not null
IRHandle_as(hp, ptr, T) == IF ExprNode_node_type(hp, ptr) = node_type_tag(T) THEN ptr ELSE NULL

\* a.as<T>()
Expr_as(e, T) ==
    /\ Running /\ exprs[e] # NONE
    /\ IF defined(exprs[e])
       THEN /\ last' = [NoOp EXCEPT !.op = "as", !.h = e, !.T = T, !.out = IRHandle_as(heap, exprs[e], T)]
            /\ fault' = fault
       ELSE \* node_type() loads the vtable through a null ptr; if the load
            \* returns, either branch of as() yields (const T *)NULL
            /\ last' = [NoOp EXCEPT !.op = "as", !.h = e, !.T = T, !.out = NULL]
            /\ fault' \in {"segv", fault}
    /\ UNCHANGED <<call, threads, raw, heap, exprs, scheds, rdoms>>

\* a.node_type(); out is the tag address returned
Expr_node_type(e) ==
    /\ Running /\ exprs[e] # NONE
    /\ IF defined(exprs[e])
       THEN /\ last' = [NoOp EXCEPT !.op = "node_type", !.h = e, !.out = ExprNode_node_type(heap, exprs[e])]
            /\ fault' = fault
       ELSE \E garbage \in {node_type_tag(T) : T \in NodeTypes} \cup {NULL} :
            /\ last' = [NoOp EXCEPT !.op = "node_type", !.h = e, !.out = garbage]
            /\ fault' \in {"segv", fault}
    /\ UNCHANGED <<call, threads, raw, heap, exprs, scheds, rdoms>>

\* a.type(); T is the Type read from the node
Expr_type(e) ==
    /\ Running /\ exprs[e] # NONE
    /\ IF defined(exprs[e])
       THEN /\ last' = [NoOp EXCEPT !.op = "type", !.h = e, !.T = heap[exprs[e]].type]
            /\ fault' = fault
       ELSE \E garbage \in {"Int32", "Float32", "Handle"} :
            /\ last' = [NoOp EXCEPT !.op = "type", !.h = e, !.T = garbage]
            /\ fault' \in {"segv", fault}
    /\ UNCHANGED <<call, threads, raw, heap, exprs, scheds, rdoms>>

\* a.accept(v); T is the concrete type whose visit overload ran
Expr_accept(e) ==
    /\ Running /\ exprs[e] # NONE
    /\ IF defined(exprs[e])
       THEN /\ last' = [NoOp EXCEPT !.op = "accept", !.h = e, !.T = heap[exprs[e]].kind]
            /\ fault' = fault
       ELSE \E garbage \in NodeTypes :
            /\ last' = [NoOp EXCEPT !.op = "accept", !.h = e, !.T = garbage]
            /\ fault' \in {"segv", fault}
    /\ UNCHANGED <<call, threads, raw, heap, exprs, scheds, rdoms>>

ExprQueries ==
    \E e \in 1..MaxExprs :
        \/ \E T \in NodeTypes : Expr_as(e, T)
        \/ Expr_node_type(e)
        \/ Expr_type(e)
        \/ Expr_accept(e)

NextExpr == ExprHandleOps \/ ExprQueries

SpecExpr == Init /\ [][NextExpr]_vars

(***************************************************************************)
(* Direct use of the public members of RefCounted through a raw pointer    *)
(* variable `const IRNode *p` of the client.  The client never uses p      *)
(* once the object it points to has been deleted.                          *)
(***************************************************************************)
\* p = IntImm::make(x); the node is not given to a handle
Raw_make(x) ==
    /\ Running
    /\ IntImm_cached(heap, x) \/ (CanMake(heap) /\ Cardinality({a \in HeapAddr : heap[a].origin = "make"}) < MaxRawNodes)
    /\ LET m == IntImm_make(heap, x) IN
        /\ heap' = m.heap
        /\ raw' = m.ptr
        /\ last' = [NoOp EXCEPT !.op = "make", !.src = x, !.out = m.ptr]
    /\ UNCHANGED <<call, threads, exprs, scheds, rdoms, fault>>

\* p = a.get();
Raw_get(e) ==
    /\ Running /\ exprs[e] # NONE
    /\ raw' = exprs[e]
    /\ last' = [NoOp EXCEPT !.op = "get", !.h = e, !.out = exprs[e]]
    /\ UNCHANGED <<call, threads, heap, exprs, scheds, rdoms, fault>>

\* p->incref();
Raw_incref ==
    /\ Running /\ raw # NULL /\ heap[raw].st # "dead"
    /\ heap[raw].ref_count < MaxCount
    /\ heap' = RefCounted_incref(heap, raw)
    /\ last' = [NoOp EXCEPT !.op = "incref", !.src = raw, !.pre = heap[raw].ref_count]
    /\ UNCHANGED <<call, threads, raw, exprs, scheds, rdoms, fault>>

\* p->decref();
Raw_decref ==
    /\ Running /\ raw # NULL /\ heap[raw].st # "dead"
    /\ heap[raw].ref_count > 0 - MaxCount
    /\ heap' = RefCounted_decref(heap, raw)
    /\ last' = [NoOp EXCEPT !.op = "decref", !.src = raw, !.pre = heap[raw].ref_count]
    /\ UNCHANGED <<call, threads, raw, exprs, scheds, rdoms, fault>>

\* Expr a(p);
Raw_adopt(e) ==
    /\ Running /\ NextSlot(exprs, e) /\ (raw # NULL => heap[raw].st # "dead")
    /\ heap' = IntrusivePtr_ctor(heap, raw)
    /\ exprs' = [exprs EXCEPT ![e] = raw]
    /\ last' = [NoOp EXCEPT !.op = "Expr(ptr)", !.h = e, !.out = raw]
    /\ UNCHANGED <<call, threads, raw, scheds, rdoms, fault>>

RawOps ==
    \/ \E x \in IntInputs \ (-8..8) : Raw_make(x)
    \/ \E e \in 1..MaxExprs : Raw_get(e)
    \/ Raw_incref
    \/ Raw_decref
    \/ \E e \in 1..MaxExprs : Raw_adopt(e)

\* raw pointer use, with handles made from the raw pointer and released
NextRaw == RawOps \/ \E e \in 1..MaxExprs : Expr_dtor(e)

SpecRaw == Init /\ [][NextRaw]_vars

(***************************************************************************)
(* ReductionDomain handles (Reduction.cpp).  A ReductionDomain is one      *)
(* IntrusivePtr<ReductionDomainContents>.                                  *)
(***************************************************************************)
\* the variable lists the client builds reduction domains from
DomainInputs == {<<"x">>, <<"x", "y">>}

\* ReductionDomain r;
ReductionDomain_default(r) ==
    /\ Running /\ NextSlot(rdoms, r)
    /\ rdoms' = [rdoms EXCEPT ![r] = NULL]
    /\ last' = [NoOp EXCEPT !.op = "ReductionDomain()", !.h = r]
    /\ UNCHANGED <<call, threads, raw, heap, exprs, scheds, fault>>

\* a constructor that stores the list in a contents object that already
\* exists, when there is one
ReductionDomain_ctor_in_place(r, domain) ==
    /\ Running /\ NextSlot(rdoms, r)
    /\ CanAlloc(heap)
    /\ LET built == {a \in HeapAddr : heap[a].st = "live" /\ heap[a].kind = "ReductionDomainContents"}
           p == IF built = {} THEN NewAddr(heap) ELSE CHOOSE a \in built : TRUE
           hp1 == IF built = {} THEN [heap EXCEPT ![p] = RefCounted("ReductionDomainContents", "ReductionDomain")] ELSE heap
           hp2 == IntrusivePtr_ctor(hp1, p)
       IN  /\ heap' = [hp2 EXCEPT ![p].domain = domain]
           /\ rdoms' = [rdoms EXCEPT ![r] = p]
           /\ last' = [NoOp EXCEPT !.op = "ReductionDomain(domain)", !.h = r, !.out = p, !.val = domain]
    /\ UNCHANGED <<call, threads, raw, exprs, scheds, fault>>

\* ReductionDomain r(domain);
ReductionDomain_ctor(r, domain) ==
    /\ Running /\ NextSlot(rdoms, r)
    /\ CanAlloc(heap)
    /\ LET p == NewAddr(heap)
           hp1 == [heap EXCEPT ![p] = RefCounted("ReductionDomainContents", "ReductionDomain")]
           hp2 == IntrusivePtr_ctor(hp1, p)
       IN  /\ heap' = [hp2 EXCEPT ![p].domain = domain]
           /\ rdoms' = [rdoms EXCEPT ![r] = p]
           /\ last' = [NoOp EXCEPT !.op = "ReductionDomain(domain)", !.h = r, !.out = p, !.val = domain]
    /\ UNCHANGED <<call, threads, raw, exprs, scheds, fault>>

\* ReductionDomain r(s.reduction_domain()); a copy of the handle a schedule holds
ReductionDomain_copy(r, s) ==
    /\ Running /\ NextSlot(rdoms, r) /\ scheds[s] # NONE
    /\ LET p == heap[scheds[s]].reduction_domain
       IN  /\ heap' = IntrusivePtr_ctor(heap, p)
           /\ rdoms' = [rdoms EXCEPT ![r] = p]
           /\ last' = [NoOp EXCEPT !.op = "ReductionDomain(copy)", !.h = r, !.src = s, !.out = p]
    /\ UNCHANGED <<call, threads, raw, exprs, scheds, fault>>

\* r = s.reduction_domain();
ReductionDomain_assign(r, s) ==
    /\ Running /\ rdoms[r] # NONE /\ scheds[s] # NONE
    /\ LET p == heap[scheds[s]].reduction_domain
       IN  /\ heap' = IntrusivePtr_assign(heap, rdoms[r], p)
           /\ rdoms' = [rdoms EXCEPT ![r] = p]
           /\ last' = [NoOp EXCEPT !.op = "ReductionDomain=", !.h = r, !.src = s, !.out = p]
    /\ UNCHANGED <<call, threads, raw, exprs, scheds, fault>>

\* r goes out of scope
ReductionDomain_dtor(r) ==
    /\ Running /\ rdoms[r] # NONE
    /\ heap' = IntrusivePtr_dtor(heap, rdoms[r])
    /\ rdoms' = [rdoms EXCEPT ![r] = NONE]
    /\ last' = [NoOp EXCEPT !.op = "~ReductionDomain", !.h = r, !.src = rdoms[r]]
    /\ UNCHANGED <<call, threads, raw, exprs, scheds, fault>>

\* r.domain(): contents->domain; through an undefined handle the reference
\* is formed from a null pointer
ReductionDomain_domain(r) ==
    /\ Running /\ rdoms[r] # NONE
    /\ last' = [NoOp EXCEPT !.op = "domain", !.h = r, !.out = IF defined(rdoms[r]) THEN Len(heap[rdoms[r]].domain) ELSE NULL]
    /\ fault' \in IF defined(rdoms[r]) THEN {fault} ELSE {"segv", fault}
    /\ UNCHANGED <<call, threads, raw, heap, exprs, scheds, rdoms>>

(***************************************************************************)
(* Schedule handles (Schedule.cpp).  A Schedule is one                     *)
(* IntrusivePtr<ScheduleContents> contents.                                *)
(***************************************************************************)
\* the ints the client builds specialization conditions from
ConditionInputs == {8, 9}

\* Schedule::Schedule(): contents(new ScheduleContents)
Schedule_ctor(s) ==
    /\ Running /\ NextSlot(scheds, s)
    /\ CanAlloc(heap)
    /\ LET p == NewAddr(heap)
       IN  /\ heap' = IntrusivePtr_ctor([heap EXCEPT ![p] = RefCounted("ScheduleContents", "Schedule")], p)
           /\ scheds' = [scheds EXCEPT ![s] = p]
           /\ last' = [NoOp EXCEPT !.op = "Schedule()", !.h = s, !.out = p]
    /\ UNCHANGED <<call, threads, raw, exprs, rdoms, fault>>

\* Schedule a(b); the copy constructor
Schedule_copy(s, b) ==
    /\ Running /\ NextSlot(scheds, s) /\ scheds[b] # NONE
    /\ heap' = IntrusivePtr_ctor(heap, scheds[b])
    /\ scheds' = [scheds EXCEPT ![s] = scheds[b]]
    /\ last' = [NoOp EXCEPT !.op = "Schedule(copy)", !.h = s, !.src = b, !.out = scheds[b]]
    /\ UNCHANGED <<call, threads, raw, exprs, rdoms, fault>>

\* IntrusivePtr<ScheduleContents> a(b.get()); from the raw pointer
Schedule_raw(s, b) ==
    /\ Running /\ NextSlot(scheds, s) /\ scheds[b] # NONE
    /\ heap' = IntrusivePtr_ctor(heap, scheds[b])
    /\ scheds' = [scheds EXCEPT ![s] = scheds[b]]
    /\ last' = [NoOp EXCEPT !.op = "Schedule(ptr)", !.h = s, !.src = b, !.out = scheds[b]]
    /\ UNCHANGED <<call, threads, raw, exprs, rdoms, fault>>

\* how often pointer n occurs in a sequence of pointers
Occurrences(ps, n) == Cardinality({i \in DOMAIN ps : ps[i] = n})

RECURSIVE MemberHandles(_, _)
\* the member handles of the objects at the addresses S that point at n
MemberHandles(S, n) == IF S = {} THEN 0 ELSE LET a == CHOOSE a \in S : TRUE IN (IF heap[a].st \in {"live", "static"} THEN Occurrences(MemberPtrs(heap[a]), n) ELSE 0) + MemberHandles(S \ {a}, n)

\* the IntrusivePtr handles that point at n: the client's handle variables
\* and the member handles of the objects that exist
HandleCount(n) == Cardinality({e \in DOMAIN exprs : exprs[e] = n}) + Cardinality({s \in DOMAIN scheds : scheds[s] = n}) + Cardinality({r \in DOMAIN rdoms : rdoms[r] = n}) + MemberHandles(Addr, n)

\* the ref_count of the object at p, NULL for none
CountOf(hp, p) == IF p = NULL THEN NULL ELSE hp[p].ref_count

\* a = b; (b may be a itself)
Schedule_assign(s, b) ==
    /\ Running /\ scheds[s] # NONE /\ scheds[b] # NONE
    /\ heap' = IntrusivePtr_assign(heap, scheds[s], scheds[b])
    /\ scheds' = [scheds EXCEPT ![s] = scheds[b]]
    /\ last' = [NoOp EXCEPT !.op = "Schedule=", !.h = s, !.src = b, !.out = scheds[b], !.pre = CountOf(heap, scheds[b]), !.old = scheds[s], !.oldpre = CountOf(heap, scheds[s]), !.prehc = HandleCount(scheds[b])]
    /\ UNCHANGED <<call, threads, raw, exprs, rdoms, fault>>

\* a goes out of scope
Schedule_dtor(s) ==
    /\ Running /\ scheds[s] # NONE
    /\ heap' = IntrusivePtr_dtor(heap, scheds[s])
    /\ scheds' = [scheds EXCEPT ![s] = NONE]
    /\ last' = [NoOp EXCEPT !.op = "~Schedule", !.h = s, !.src = scheds[s]]
    /\ UNCHANGED <<call, threads, raw, exprs, rdoms, fault>>

\* set_reduction_domain that assigns to a copy of the member
Schedule_set_reduction_domain_local(s, r) ==
    /\ Running /\ scheds[s] # NONE /\ rdoms[r] # NONE
    /\ last' = [NoOp EXCEPT !.op = "set_reduction_domain", !.h = s, !.src = r, !.out = rdoms[r]]
    /\ UNCHANGED <<call, threads, raw, heap, exprs, scheds, rdoms, fault>>

\* Schedule::set_reduction_domain(d): contents->reduction_domain = d
Schedule_set_reduction_domain(s, r) ==
    /\ Running /\ scheds[s] # NONE /\ rdoms[r] # NONE
    /\ LET c == scheds[s]
           hp1 == IntrusivePtr_assign(heap, heap[c].reduction_domain, rdoms[r])
       IN  heap' = [hp1 EXCEPT ![c].reduction_domain = rdoms[r], ![c].written = @ \cup {"reduction_domain"}]
    /\ last' = [NoOp EXCEPT !.op = "set_reduction_domain", !.h = s, !.src = r, !.out = rdoms[r]]
    /\ UNCHANGED <<call, threads, raw, exprs, scheds, rdoms, fault>>

\* IntrusivePtr<ScheduleContents> a(b->specializations[i].schedule); a
\* copy of the handle a specialization record holds
Schedule_of_specialization(s, b, i) ==
    /\ Running /\ NextSlot(scheds, s) /\ scheds[b] # NONE
    /\ i \in 1..Len(heap[scheds[b]].specializations)
    /\ LET p == heap[scheds[b]].specializations[i].schedule
       IN  /\ heap' = IntrusivePtr_ctor(heap, p)
           /\ scheds' = [scheds EXCEPT ![s] = p]
           /\ last' = [NoOp EXCEPT !.op = "Schedule(specialization)", !.h = s, !.src = b, !.out = p]
    /\ UNCHANGED <<call, threads, raw, exprs, rdoms, fault>>

\* a = b->specializations[i].schedule; the source handle lives inside the
\* object b owns (b may be a itself)
Schedule_assign_nested(s, b, i) ==
    /\ Running /\ scheds[s] # NONE /\ scheds[b] # NONE
    /\ i \in 1..Len(heap[scheds[b]].specializations)
    /\ LET p == heap[scheds[b]].specializations[i].schedule
       IN  /\ heap' = IntrusivePtr_assign(heap, scheds[s], p)
           /\ scheds' = [scheds EXCEPT ![s] = p]
           /\ last' = [NoOp EXCEPT !.op = "Schedule=nested", !.h = s, !.src = b, !.out = p, !.pre = CountOf(heap, p), !.old = scheds[s], !.oldpre = CountOf(heap, scheds[s]), !.prehc = HandleCount(p)]
    /\ UNCHANGED <<call, threads, raw, exprs, rdoms, fault>>

RECURSIVE incref_all(_, _)
\* copy construction of each of a sequence of handles
incref_all(hp, ps) == IF ps = <<>> THEN hp ELSE incref_all(incref(hp, Head(ps)), Tail(ps))

\* a copy assignment that copies the reduction domain's pointer without
\* taking a reference
ScheduleContents_assign_no_incref(hp, dst, src) ==
    LET hp1 == [hp EXCEPT ![dst].ref_count = hp[src].ref_count]
        hp2 == [hp1 EXCEPT ![dst].store_level = hp1[src].store_level, ![dst].compute_level = hp1[src].compute_level, ![dst].splits = hp1[src].splits, ![dst].dims = hp1[src].dims, ![dst].storage_dims = hp1[src].storage_dims, ![dst].bounds = hp1[src].bounds]
        hp3 == decref_all(incref_all(hp2, SpecializationPtrs(hp2[src].specializations)), SpecializationPtrs(hp2[dst].specializations))
        hp4 == [hp3 EXCEPT ![dst].specializations = hp3[src].specializations]
    IN  [hp4 EXCEPT ![dst].reduction_domain = hp4[src].reduction_domain, ![dst].memoized = hp4[src].memoized, ![dst].touched = hp4[src].touched, ![dst].allow_race_conditions = hp4[src].allow_race_conditions]

\* *dst = *src on two ScheduleContents: the implicit copy assignment
\* operator assigns the RefCounted base (ref_count with it), then each
\* member in the order of declaration
ScheduleContents_assign(hp, dst, src) ==
    LET hp1 == [hp EXCEPT ![dst].ref_count = hp[src].ref_count]
        hp2 == [hp1 EXCEPT ![dst].store_level = hp1[src].store_level, ![dst].compute_level = hp1[src].compute_level, ![dst].splits = hp1[src].splits, ![dst].dims = hp1[src].dims, ![dst].storage_dims = hp1[src].storage_dims, ![dst].bounds = hp1[src].bounds]
        hp3 == decref_all(incref_all(hp2, SpecializationPtrs(hp2[src].specializations)), SpecializationPtrs(hp2[dst].specializations))
        hp4 == [hp3 EXCEPT ![dst].specializations = hp3[src].specializations]
        hp5 == IntrusivePtr_assign(hp4, hp4[dst].reduction_domain, hp4[src].reduction_domain)
    IN  [hp5 EXCEPT ![dst].reduction_domain = hp5[src].reduction_domain, ![dst].memoized = hp5[src].memoized, ![dst].touched = hp5[src].touched, ![dst].allow_race_conditions = hp5[src].allow_race_conditions]

\* add_specialization that leaves out s.schedule->specializations.clear()
add_specialization_keep_list(hp, parent, condition) ==
    LET hp1 == IntrusivePtr_assign(hp, NULL, condition)
        child == NewAddr(hp1)
        hp2 == IntrusivePtr_ctor([hp1 EXCEPT ![child] = RefCounted("ScheduleContents", "add_specialization")], child)
        hp3 == IntrusivePtr_dtor(IntrusivePtr_assign(hp2, NULL, child), child)
        hp4 == ScheduleContents_assign(hp3, child, parent)
        hp7 == incref_all(hp4, <<condition, child>>)
        hp8 == [hp7 EXCEPT ![parent].specializations = Append(@, [condition |-> condition, schedule |-> child])]
    IN  decref_all(hp8, <<child, condition>>)

\* add_specialization that puts the new record at the front of the list
add_specialization_push_front(hp, parent, condition) ==
    LET hp1 == IntrusivePtr_assign(hp, NULL, condition)
        child == NewAddr(hp1)
        hp2 == IntrusivePtr_ctor([hp1 EXCEPT ![child] = RefCounted("ScheduleContents", "add_specialization")], child)
        hp3 == IntrusivePtr_dtor(IntrusivePtr_assign(hp2, NULL, child), child)
        hp4 == ScheduleContents_assign(hp3, child, parent)
        hp5 == decref_all(hp4, SpecializationPtrs(hp4[child].specializations))
        hp6 == [hp5 EXCEPT ![child].specializations = <<>>]
        hp7 == incref_all(hp6, <<condition, child>>)
        hp8 == [hp7 EXCEPT ![parent].specializations = <<[condition |-> condition, schedule |-> child]>> \o @]
    IN  decref_all(hp8, <<child, condition>>)

\* add_specialization that also marks the parent as touched
add_specialization_touch(hp, parent, condition) ==
    LET hp1 == IntrusivePtr_assign(hp, NULL, condition)
        child == NewAddr(hp1)
        hp2 == IntrusivePtr_ctor([hp1 EXCEPT ![child] = RefCounted("ScheduleContents", "add_specialization")], child)
        hp3 == IntrusivePtr_dtor(IntrusivePtr_assign(hp2, NULL, child), child)
        hp4 == ScheduleContents_assign(hp3, child, parent)
        hp5 == decref_all(hp4, SpecializationPtrs(hp4[child].specializations))
        hp6 == [hp5 EXCEPT ![child].specializations = <<>>]
        hp7 == incref_all(hp6, <<condition, child>>)
        hp8 == [hp7 EXCEPT ![parent].specializations = Append(@, [condition |-> condition, schedule |-> child]), ![parent].touched = TRUE]
    IN  decref_all(hp8, <<child, condition>>)

\* add_specialization whose record refers to the parent's own contents
add_specialization_alias(hp, parent, condition) == [incref_all(hp, <<condition, parent>>) EXCEPT ![parent].specializations = Append(@, [condition |-> condition, schedule |-> parent])]

\* Schedule::add_specialization(condition) on the contents at parent, with
\* condition the pointer of the Expr argument: the heap after the call
add_specialization(hp, parent, condition) ==
    LET \* Specialization s; s.condition = condition;
        hp1 == IntrusivePtr_assign(hp, NULL, condition)
        \* s.schedule = IntrusivePtr<ScheduleContents>(new ScheduleContents);
        child == NewAddr(hp1)
        hp2 == IntrusivePtr_ctor([hp1 EXCEPT ![child] = RefCounted("ScheduleContents", "add_specialization")], child)
        hp3 == IntrusivePtr_dtor(IntrusivePtr_assign(hp2, NULL, child), child)
        \* *(s.schedule.get()) = *(contents.get());
        hp4 == ScheduleContents_assign(hp3, child, parent)
        \* s.schedule->specializations.clear();
        hp5 == decref_all(hp4, SpecializationPtrs(hp4[child].specializations))
        hp6 == [hp5 EXCEPT ![child].specializations = <<>>]
        \* contents->specializations.push_back(s);
        hp7 == incref_all(hp6, <<condition, child>>)
        hp8 == [hp7 EXCEPT ![parent].specializations = Append(@, [condition |-> condition, schedule |-> child])]
        \* return contents->specializations.back(); s goes out of scope
    IN  decref_all(hp8, <<child, condition>>)

\* specializations.back()
back(specs) == specs[Len(specs)]

\* bookkeeping: the object allocated at child notes the field values obj
\* had when the call was made
Snapshot(hp, child, obj) == IF hp[child].st = "live" THEN [hp EXCEPT ![child].snap = FieldsOf(obj)] ELSE hp

\* a.add_specialization(Expr(x)); the argument is a temporary built from
\* the int x, destroyed when the call has returned
Schedule_add_specialization(s, x) ==
    /\ Running /\ scheds[s] # NONE
    /\ Len(heap[scheds[s]].specializations) < MaxSpecs
    /\ IntImm_cached(heap, x) \/ CanMake(heap)
    /\ LET m == IntImm_make(heap, x)
           hp1 == IntrusivePtr_ctor(m.heap, m.ptr)
       IN  /\ CanAlloc(hp1)
           /\ heap' = Snapshot(IntrusivePtr_dtor(add_specialization(hp1, scheds[s], m.ptr), m.ptr), NewAddr(hp1), heap[scheds[s]])
           /\ last' = [NoOp EXCEPT !.op = "add_specialization", !.h = s, !.src = x, !.out = NewAddr(hp1), !.pre = heap[scheds[s]].ref_count, !.prespecs = heap[scheds[s]].specializations, !.ret = back(heap'[scheds[s]].specializations)]
    /\ UNCHANGED <<call, threads, raw, exprs, scheds, rdoms, fault>>

SchedHandleOps ==
    \/ \E r \in 1..MaxRDoms :
        \/ ReductionDomain_default(r)
        \/ \E d \in DomainInputs : ReductionDomain_ctor(r, d)
        \/ \E s \in 1..MaxScheds : ReductionDomain_copy(r, s)
        \/ \E s \in 1..MaxScheds : ReductionDomain_assign(r, s)
        \/ ReductionDomain_dtor(r)
        \/ ReductionDomain_domain(r)
    \/ \E s \in 1..MaxScheds :
        \/ Schedule_ctor(s)
        \/ \E b \in 1..MaxScheds : Schedule_copy(s, b)
        \/ \E b \in 1..MaxScheds : Schedule_raw(s, b)
        \/ \E b \in 1..MaxScheds : Schedule_assign(s, b)
        \/ Schedule_dtor(s)
        \/ \E r \in 1..MaxRDoms : Schedule_set_reduction_domain(s, r)

SpecializationOps ==
    \E s \in 1..MaxScheds :
        \/ \E x \in ConditionInputs : Schedule_add_specialization(s, x)
        \/ \E b \in 1..MaxScheds, i \in 1..MaxSpecs : Schedule_of_specialization(s, b, i)
        \/ \E b \in 1..MaxScheds, i \in 1..MaxSpecs : Schedule_assign_nested(s, b, i)

\* sequences of IntrusivePtr operations alone
NextPtr == SchedHandleOps

SpecPtr == Init /\ [][NextPtr]_vars

\* the schedule layer: handles, reduction domains, specializations
Next == SchedHandleOps \/ SpecializationOps

Spec == Init /\ [][Next]_vars

(***************************************************************************)
(* The mutable accessors of Schedule (Schedule.cpp): each returns a        *)
(* reference to a member of *contents, which the client writes through.    *)
(***************************************************************************)
VectorFields == {"splits", "dims", "storage_dims", "bounds"}

ScalarFields == {"store_level", "compute_level", "memoized", "touched", "allow_race_conditions"}

\* the elements the client appends and the values it assigns
ElementInputs == {"x"}

ScalarInputs(f) == IF f \in {"store_level", "compute_level"} THEN {"inline", "root"} ELSE BOOLEAN

\* every handle working on the contents of the first handle variable
contents_first(s) == scheds[1]

\* the object a Schedule member function works on: contents.get()
contents(s) == scheds[s]

\* the fields the client has written through an accessor in some object
FieldsWritten == UNION {heap[n].written : n \in HeapAddr} \ {"reduction_domain"}

\* the client writes f when it has before or works with fewer than
\* MaxWrites fields
CanWrite(f) == f \in FieldsWritten \/ Cardinality(FieldsWritten) < MaxWrites

\* a.splits().push_back(x); and the same on dims(), storage_dims(), bounds()
Schedule_push_back(s, f, x) ==
    /\ Running /\ scheds[s] # NONE
    /\ Len(heap[contents(s)][f]) < MaxLen /\ CanWrite(f)
    /\ heap' = [[heap EXCEPT ![contents(s)][f] = Append(@, x)] EXCEPT ![scheds[s]].written = @ \cup {f}]
    /\ last' = [NoOp EXCEPT !.op = "push_back", !.h = s, !.T = f, !.val = x, !.out = scheds[s]]
    /\ UNCHANGED <<call, threads, raw, exprs, scheds, rdoms, fault>>

\* a.store_level() = v; and the same on compute_level(), memoized(),
\* touched(), allow_race_conditions()
Schedule_set(s, f, v) ==
    /\ Running /\ scheds[s] # NONE
    /\ CanWrite(f)
    /\ heap' = [[heap EXCEPT ![contents(s)][f] = v] EXCEPT ![scheds[s]].written = @ \cup {f}]
    /\ last' = [NoOp EXCEPT !.op = "set", !.h = s, !.T = f, !.val = v, !.out = scheds[s]]
    /\ UNCHANGED <<call, threads, raw, exprs, scheds, rdoms, fault>>

AccessorOps ==
    \E s \in 1..MaxScheds :
        \/ \E f \in VectorFields, x \in ElementInputs : Schedule_push_back(s, f, x)
        \/ \E f \in ScalarFields : \E v \in ScalarInputs(f) : Schedule_set(s, f, v)

\* schedules branched by add_specialization and written through accessors
NextFields ==
    \/ AccessorOps
    \/ \E r \in 1..MaxRDoms :
        \/ \E d \in DomainInputs : ReductionDomain_ctor(r, d)
        \/ \E s \in 1..MaxScheds : Schedule_set_reduction_domain(s, r)
    \/ \E s \in 1..MaxScheds :
        \/ Schedule_ctor(s)
        \/ \E b \in 1..MaxScheds : Schedule_copy(s, b)
        \/ \E x \in ConditionInputs : Schedule_add_specialization(s, x)
        \/ \E b \in 1..MaxScheds, i \in 1..MaxSpecs : Schedule_of_specialization(s, b, i)

SpecFields == Init /\ [][NextFields]_vars

(***************************************************************************)
(* Reference cycles.  No member of Schedule builds one; the client builds  *)
(* them by hand through the contents pointer, and removes the cycle's      *)
(* contribution from the count as the comment in RefCounted::decref        *)
(* describes, so that only references from outside the cycle are counted.  *)
(***************************************************************************)
\* the heap after `Specialization t; t.schedule = q;
\* p->specializations.push_back(t);` and the end of t's scope
push_back_schedule(hp, p, q) ==
    LET hp1 == IntrusivePtr_assign(hp, NULL, q)
        hp2 == incref_all(hp1, <<NULL, q>>)
        hp3 == [hp2 EXCEPT ![p].specializations = Append(@, [condition |-> NULL, schedule |-> q])]
    IN  decref_all(hp3, <<q, NULL>>)

\* a's contents get a record that refers to a's contents themselves; then
\* a.contents.get()->decref() takes the record's reference out of the count
Cycle_self(s) ==
    /\ Running /\ scheds[s] # NONE
    /\ Len(heap[scheds[s]].specializations) < MaxLinks
    /\ heap' = RefCounted_decref(push_back_schedule(heap, scheds[s], scheds[s]), scheds[s])
    /\ last' = [NoOp EXCEPT !.op = "cycle(self)", !.h = s, !.out = scheds[s]]
    /\ UNCHANGED <<call, threads, raw, exprs, scheds, rdoms, fault>>

\* a's contents get a record that refers to b's contents (counted), b's
\* contents a record that refers back to a's; a.contents.get()->decref()
\* takes the back reference out of the count; b, the only handle on its
\* contents, goes out of scope
Cycle_pair(s, b) ==
    /\ Running /\ scheds[s] # NONE /\ scheds[b] # NONE
    /\ scheds[s] # scheds[b] /\ heap[scheds[b]].ref_count = 1
    /\ Len(heap[scheds[s]].specializations) < MaxLinks
    /\ Len(heap[scheds[b]].specializations) < MaxLinks
    /\ LET p == scheds[s]
           q == scheds[b]
           hp1 == push_back_schedule(heap, p, q)
           hp2 == RefCounted_decref(push_back_schedule(hp1, q, p), p)
       IN  heap' = IntrusivePtr_dtor(hp2, q)
    /\ scheds' = [scheds EXCEPT ![b] = NONE]
    /\ last' = [NoOp EXCEPT !.op = "cycle(pair)", !.h = s, !.src = b, !.out = scheds[b]]
    /\ UNCHANGED <<call, threads, raw, exprs, rdoms, fault>>

\* Schedule handles over contents that the client ties into cycles
NextCycle ==
    \E s \in 1..MaxScheds :
        \/ Schedule_ctor(s)
        \/ \E b \in 1..MaxScheds : Schedule_copy(s, b)
        \/ Schedule_dtor(s)
        \/ Cycle_self(s)
        \/ \E b \in 1..MaxScheds : Cycle_pair(s, b)

SpecCycle == Init /\ [][NextCycle]_vars

(***************************************************************************)
(* Handles as keys of ordered containers (IntrusivePtr.h, Expr.h).  The    *)
(* built-in < on pointers compares addresses; the null pointer is the      *)
(* lowest address.                                                         *)
(***************************************************************************)
\* the handle variables the client compares
MaxKeys == 3

\* a comparison that also holds between equal pointers
IntrusivePtr_less_or_equal(ptr, other) == ptr <= other

\* IntrusivePtr::operator<
IntrusivePtr_less(ptr, other) == ptr < other

\* IRHandle::Compare()(a, b): a.ptr < b.ptr
IRHandle_Compare(a, b) == IntrusivePtr_less(a, b)

\* Stmt::Compare()(a, b): a.ptr < b.ptr
Stmt_Compare(a, b) == IntrusivePtr_less(a, b)

Comparators == {"operator<", "IRHandle::Compare", "Stmt::Compare"}

Compare(cmp, a, b) ==
    CASE cmp = "operator<" -> IntrusivePtr_less(a, b)
      [] cmp = "IRHandle::Compare" -> IRHandle_Compare(a, b)
      [] cmp = "Stmt::Compare" -> Stmt_Compare(a, b)

InitKeys ==
    /\ heap = [a \in Addr |-> IF a \in CacheAddr THEN small_int_cache_init[a] ELSE Blank]
    /\ exprs = [e \in 1..MaxKeys |-> NONE]
    /\ scheds = [s \in 1..MaxScheds |-> NONE]
    /\ rdoms = [r \in 1..MaxRDoms |-> NONE]
    /\ raw = NULL
    /\ threads = ThreadInit
    /\ call = CallIdle
    /\ fault = "none"
    /\ last = NoOp

\* bool r = cmp(a, b); as an ordered container does on insertion and lookup
Handle_compare(cmp, a, b) ==
    /\ Running /\ exprs[a] # NONE /\ exprs[b] # NONE
    /\ last' = [NoOp EXCEPT !.op = "compare", !.T = cmp, !.h = a, !.src = b, !.val = Compare(cmp, exprs[a], exprs[b])]
    /\ UNCHANGED <<call, threads, raw, heap, exprs, scheds, rdoms, fault>>

NextKeys ==
    \E e \in 1..MaxKeys :
        \/ Expr_default(e)
        \/ \E x \in IntInputs : Expr_int(e, x)
        \/ \E b \in 1..MaxKeys : Expr_copy(e, b)
        \/ Expr_dtor(e)
        \/ \E b \in 1..MaxKeys, cmp \in Comparators : Handle_compare(cmp, e, b)

SpecKeys == InitKeys /\ [][NextKeys]_vars

(***************************************************************************)
(* Handles used from several threads (IntrusivePtr.h).  ref_count is a     *)
(* plain int: ref_count++ and ref_count-- are a load into a register, an   *)
(* addition and a write back, and the steps of two threads on one node     *)
(* interleave.  The main thread builds and destroys its handles while the  *)
(* other threads are between operations.                                    *)
(***************************************************************************)
\* a write back that adds to the count in memory in one indivisible step
write_back_atomic(hp, n, reg, d) == [hp EXCEPT ![n].ref_count = @ + d]

\* the write back of ref_count++ (d = 1) and ref_count-- (d = -1): the
\* register plus d is stored
write_back(hp, n, reg, d) == [hp EXCEPT ![n].ref_count = reg + d]

Quiescent == \A t \in Threads : threads[t].pc = "idle"

\* thread t touches an object that has been deleted
use_after_free(t) ==
    /\ heap[threads[t].h].st = "dead"
    /\ fault' = "use_after_free"
    /\ last' = [NoOp EXCEPT !.op = "use_after_free", !.h = t, !.src = threads[t].h]
    /\ UNCHANGED <<call, threads, raw, heap, exprs, scheds, rdoms>>

\* thread t: Expr a(b); with b a defined handle of the main thread.
\* IntrusivePtr(const IntrusivePtr &other) : ptr(other.ptr), then
\* incref(ptr) loads ref_count
Thread_copy(t, e) ==
    /\ Running /\ threads[t].pc = "idle" /\ threads[t].h = NONE /\ threads[t].ops < MaxThreadOps
    /\ exprs[e] # NONE /\ defined(exprs[e])
    /\ IF heap[exprs[e]].st = "dead"
       THEN /\ fault' = "use_after_free"
            /\ last' = [NoOp EXCEPT !.op = "use_after_free", !.h = t, !.src = exprs[e]]
            /\ UNCHANGED <<call, threads, raw, heap, exprs, scheds, rdoms>>
       ELSE /\ threads' = [threads EXCEPT ![t].h = exprs[e], ![t].reg = heap[exprs[e]].ref_count, ![t].pc = "incref", ![t].ops = @ + 1]
            /\ last' = [NoOp EXCEPT !.op = "load", !.h = t, !.src = exprs[e]]
            /\ UNCHANGED <<call, raw, heap, exprs, scheds, rdoms, fault>>

\* thread t: the write back of ref_count++
Thread_incref_store(t) ==
    /\ Running /\ threads[t].pc = "incref"
    /\ \/ use_after_free(t)
       \/ /\ heap[threads[t].h].st # "dead"
          /\ heap' = write_back(heap, threads[t].h, threads[t].reg, 1)
          /\ threads' = [threads EXCEPT ![t].pc = "idle", ![t].stale = @ \/ heap[threads[t].h].ref_count # threads[t].reg]
          /\ last' = [NoOp EXCEPT !.op = "incref", !.h = t, !.src = threads[t].h, !.pre = heap[threads[t].h].ref_count]
          /\ UNCHANGED <<call, raw, exprs, scheds, rdoms, fault>>

\* thread t: its handle goes out of scope; ~IntrusivePtr calls decref(ptr),
\* which loads ref_count
Thread_dtor(t) ==
    /\ Running /\ threads[t].pc = "idle" /\ threads[t].h # NONE /\ threads[t].ops < MaxThreadOps
    /\ \/ use_after_free(t)
       \/ /\ heap[threads[t].h].st # "dead"
          /\ threads' = [threads EXCEPT ![t].reg = heap[threads[t].h].ref_count, ![t].pc = "decref", ![t].ops = @ + 1]
          /\ last' = [NoOp EXCEPT !.op = "load", !.h = t, !.src = threads[t].h]
          /\ UNCHANGED <<call, raw, heap, exprs, scheds, rdoms, fault>>

\* thread t: the write back of ref_count--
Thread_decref_store(t) ==
    /\ Running /\ threads[t].pc = "decref"
    /\ \/ use_after_free(t)
       \/ /\ heap[threads[t].h].st # "dead"
          /\ heap' = write_back(heap, threads[t].h, threads[t].reg, -1)
          /\ threads' = [threads EXCEPT ![t].pc = "test", ![t].reg = @ - 1, ![t].stale = @ \/ heap[threads[t].h].ref_count # threads[t].reg]
          /\ last' = [NoOp EXCEPT !.op = "decref", !.h = t, !.src = threads[t].h, !.pre = heap[threads[t].h].ref_count]
          /\ UNCHANGED <<call, raw, exprs, scheds, rdoms, fault>>

\* thread t: if (ref_count == 0) delete this; the build tests the value it
\* wrote back (in the register) or reads the count again
Thread_decref_test(t) ==
    /\ Running /\ threads[t].pc = "test"
    /\ LET n == threads[t].h IN
        \E v \in {threads[t].reg, heap[n].ref_count} :
            IF heap[n].st = "dead" /\ (v = 0 \/ v # threads[t].reg)
            THEN use_after_free(t)
            ELSE /\ heap' = IF v = 0 THEN delete_this(heap, n) ELSE heap
                 /\ threads' = [threads EXCEPT ![t].pc = "idle", ![t].h = NONE]
                 /\ last' = [NoOp EXCEPT !.op = "~Expr", !.h = t, !.src = n, !.val = (v = 0)]
                 /\ UNCHANGED <<call, raw, exprs, scheds, rdoms, fault>>

ThreadOps ==
    \E t \in Threads :
        \/ \E e \in 1..MaxExprs : Thread_copy(t, e)
        \/ Thread_incref_store(t)
        \/ Thread_dtor(t)
        \/ Thread_decref_store(t)
        \/ Thread_decref_test(t)

NextRace ==
    \/ ThreadOps
    \/ /\ Quiescent
       /\ \E e \in 1..MaxExprs :
            \/ \E x \in IntInputs : Expr_int(e, x)
            \/ Expr_dtor(e)

SpecRace == Init /\ [][NextRace]_vars

(***************************************************************************)
(* Float and string literals (Expr.h).                                     *)
(***************************************************************************)
NextLit ==
    \E e \in 1..MaxExprs :
        \/ \E x \in IntInputs : Expr_int(e, x)
        \/ \E x \in FloatInputs : Expr_float(e, x)
        \/ \E x \in DoubleInputs : Expr_double(e, x)
        \/ \E s \in StringInputs : Expr_string(e, s)
        \/ \E b \in 1..MaxExprs : Expr_copy(e, b)
        \/ \E b \in 1..MaxExprs : Expr_assign(e, b)
        \/ Expr_dtor(e)

SpecLit == Init /\ [][NextLit]_vars

(***************************************************************************)
(* Reduction domains of schedules and their specializations                *)
(* (Schedule.cpp, Reduction.cpp).                                          *)
(***************************************************************************)
NextDomain ==
    \/ \E r \in 1..MaxRDoms :
        \/ ReductionDomain_default(r)
        \/ \E d \in DomainInputs : ReductionDomain_ctor(r, d)
        \/ ReductionDomain_dtor(r)
        \/ \E s \in 1..MaxScheds : Schedule_set_reduction_domain(s, r)
    \/ \E s \in 1..MaxScheds :
        \/ Schedule_ctor(s)
        \/ \E x \in ConditionInputs : Schedule_add_specialization(s, x)
        \/ \E b \in 1..MaxScheds, i \in 1..MaxSpecs : Schedule_of_specialization(s, b, i)

SpecDomain == Init /\ [][NextDomain]_vars

(***************************************************************************)
(* IntImm::make while small_int_cache is being set up (Expr.h).  The pool  *)
(* is static storage, zero until its entries are initialised, one after    *)
(* the other, while other static initialisers already build expressions.   *)
(***************************************************************************)
\* the pool before its initialisation: zero-initialised static storage
small_int_cache_zero == [a \in CacheAddr |-> [Blank EXCEPT !.st = "static", !.origin = "static"]]

InitPool ==
    /\ heap = [a \in Addr |-> IF a \in CacheAddr THEN small_int_cache_zero[a] ELSE Blank]
    /\ exprs = [e \in 1..MaxExprs |-> NONE]
    /\ scheds = [s \in 1..MaxScheds |-> NONE]
    /\ rdoms = [r \in 1..MaxRDoms |-> NONE]
    /\ raw = NULL
    /\ threads = ThreadInit
    /\ call = CallIdle
    /\ fault = "none"
    /\ last = NoOp

\* the initialisation of the next pool entry, in the order of the array
Pool_init_entry(a) ==
    /\ Running /\ a \in CacheAddr
    /\ heap[a] = small_int_cache_zero[a] /\ \A b \in CacheAddr : b < a => heap[b] # small_int_cache_zero[b]
    /\ heap' = [heap EXCEPT ![a] = small_int_cache_init[a]]
    /\ last' = [NoOp EXCEPT !.op = "small_int_cache", !.out = a]
    /\ UNCHANGED <<call, threads, raw, exprs, scheds, rdoms, fault>>

NextPool ==
    \/ \E a \in CacheAddr : Pool_init_entry(a)
    \/ \E e \in 1..MaxExprs :
        \/ \E x \in IntInputs : Expr_int(e, x)
        \/ \E b \in 1..MaxExprs : Expr_copy(e, b)
        \/ Expr_dtor(e)

SpecPool == InitPool /\ [][NextPool]_vars

(***************************************************************************)
(* Schedule::add_specialization statement by statement (Schedule.cpp       *)
(* 80-90), the copy assignment member by member, with the specialization   *)
(* lists read between the statements.                                      *)
(***************************************************************************)
\* the bases and members the implicit copy assignment of ScheduleContents
\* assigns, in the order of declaration
Members == <<"ref_count", "store_level", "compute_level", "splits", "dims", "storage_dims", "bounds", "specializations", "reduction_domain", "memoized", "touched", "allow_race_conditions">>

\* a body that appends the record before the child is filled
add_specialization_steps_push_first == <<"new", "push_back">> \o Members \o <<"clear", "return">>

\* the body of add_specialization after `s.condition = condition`: the
\* allocation of the child, the copy assignment, clear(), push_back(s),
\* and the return, which ends the life of s
add_specialization_steps == <<"new">> \o Members \o <<"clear", "push_back", "return">>

\* dst.f = src.f for one base or member f
assign_member(hp, dst, src, f) ==
    CASE f = "ref_count" -> [hp EXCEPT ![dst].ref_count = hp[src].ref_count]
      [] f = "specializations" ->
            [decref_all(incref_all(hp, SpecializationPtrs(hp[src].specializations)), SpecializationPtrs(hp[dst].specializations))
                EXCEPT ![dst].specializations = hp[src].specializations]
      [] f = "reduction_domain" ->
            [IntrusivePtr_assign(hp, hp[dst].reduction_domain, hp[src].reduction_domain) EXCEPT ![dst].reduction_domain = hp[src].reduction_domain]
      [] OTHER -> [hp EXCEPT ![dst][f] = hp[src][f]]

\* the heap after one statement of the body
add_specialization_step(hp, c, step) ==
    CASE step = "new" ->
            LET child == NewAddr(hp)
                hp2 == IntrusivePtr_ctor([hp EXCEPT ![child] = RefCounted("ScheduleContents", "add_specialization")], child)
            IN  IntrusivePtr_dtor(IntrusivePtr_assign(hp2, NULL, child), child)
      [] step = "clear" -> [decref_all(hp, SpecializationPtrs(hp[c.child].specializations)) EXCEPT ![c.child].specializations = <<>>]
      [] step = "push_back" ->
            [incref_all(hp, <<c.condition, c.child>>) EXCEPT ![c.parent].specializations = Append(@, [condition |-> c.condition, schedule |-> c.child])]
      [] step = "return" -> Snapshot(IntrusivePtr_dtor(decref_all(hp, <<c.child, c.condition>>), c.condition), c.child, c.start[c.parent])
      [] OTHER -> assign_member(hp, c.child, c.parent, step)

\* a.add_specialization(Expr(x)); is entered: the argument is built,
\* Specialization s; s.condition = condition;
Call_add_specialization(s, x) ==
    /\ Running /\ call.pc = 0 /\ scheds[s] # NONE
    /\ Len(heap[scheds[s]].specializations) < MaxSpecs
    /\ IntImm_cached(heap, x) \/ CanMake(heap)
    /\ LET m == IntImm_make(heap, x)
           hp1 == IntrusivePtr_ctor(m.heap, m.ptr)
       IN  /\ CanAlloc(hp1)
           /\ heap' = IntrusivePtr_assign(hp1, NULL, m.ptr)
           /\ call' = [CallIdle EXCEPT !.pc = 1, !.h = s, !.x = x, !.parent = scheds[s], !.condition = m.ptr, !.start = heap]
           /\ last' = [NoOp EXCEPT !.op = "call", !.h = s, !.src = x]
    /\ UNCHANGED <<threads, raw, exprs, scheds, rdoms, fault>>

\* the next statement of the call in progress
Call_step ==
    /\ Running /\ call.pc # 0
    /\ LET step == add_specialization_steps[call.pc] IN
        /\ heap' = add_specialization_step(heap, call, step)
        /\ call' = IF step = "return" THEN CallIdle
                   ELSE [call EXCEPT !.pc = @ + 1, !.done = @ \cup {step}, !.child = IF step = "new" THEN NewAddr(heap) ELSE @]
        /\ last' = IF step = "return"
                   THEN [NoOp EXCEPT !.op = "add_specialization", !.h = call.h, !.src = call.x, !.out = call.child, !.pre = call.start[call.parent].ref_count, !.prespecs = call.start[call.parent].specializations, !.ret = back(heap'[call.parent].specializations)]
                   ELSE [NoOp EXCEPT !.op = "statement", !.T = step]
    /\ UNCHANGED <<threads, raw, exprs, scheds, rdoms, fault>>

\* a.specializations() read through the handle variable g
Schedule_specializations(g) ==
    /\ Running /\ scheds[g] # NONE
    /\ last' = [NoOp EXCEPT !.op = "specializations", !.h = g, !.prespecs = heap[scheds[g]].specializations]
    /\ UNCHANGED <<call, threads, raw, heap, exprs, scheds, rdoms, fault>>

NextSteps ==
    \/ Call_step
    \/ \E s \in 1..MaxScheds :
        \/ \E x \in ConditionInputs : Call_add_specialization(s, x)
        \/ Schedule_specializations(s)
    \/ /\ call.pc = 0
       /\ \/ AccessorOps
          \/ \E s \in 1..MaxScheds :
                \/ Schedule_ctor(s)
                \/ \E b \in 1..MaxScheds, i \in 1..MaxSpecs : Schedule_of_specialization(s, b, i)

SpecSteps == Init /\ [][NextSteps]_vars

(***************************************************************************)
(* Properties.                                                             *)
(***************************************************************************)
AllReleased == (\A e \in 1..MaxExprs : exprs[e] = NONE) /\ (\A s \in 1..MaxScheds : scheds[s] = NONE) /\ (\A r \in 1..MaxRDoms : rdoms[r] = NONE)

\* C1: under sequences of IntrusivePtr operations (no cycle can be built),
\* no object is ever deleted twice, and once every handle variable has been
\* destroyed every heap object that was allocated has ref_count 0 and has
\* been deleted exactly once.
C1_AllReleasedAllDestroyedOnce ==
    /\ \A n \in HeapAddr : heap[n].destroyed <= 1
    /\ AllReleased => \A n \in HeapAddr : heap[n].st # "free" => heap[n].st = "dead" /\ heap[n].ref_count = 0 /\ heap[n].destroyed = 1

C1_Witness ==
    /\ AllReleased /\ last.op = "~Schedule"
    /\ \E n, m \in HeapAddr : heap[n].origin = "Schedule" /\ heap[n].destroyed = 1 /\ heap[m].origin = "ReductionDomain" /\ heap[m].destroyed = 1

\* C2: in every reachable state the ref_count of a live heap object equals
\* the number of IntrusivePtr handles that point at it.
C2_CountEqualsHandles == \A n \in HeapAddr : heap[n].st = "live" => heap[n].ref_count = HandleCount(n)

\* C3: a ScheduleContents allocated by add_specialization has, while it
\* lives, a ref_count equal to the number of Specialization records and
\* handles that reference it; it is deleted once when none is left, and
\* never twice.
C3_ChildCountedAndFreedOnce ==
    \A n \in HeapAddr : heap[n].origin = "add_specialization" =>
        /\ heap[n].destroyed <= 1
        /\ heap[n].st = "live" => heap[n].ref_count = HandleCount(n)
        /\ HandleCount(n) = 0 => heap[n].st = "dead" /\ heap[n].destroyed = 1

\* C4: after a = b the object b referred to lives and a points at it: (i)
\* self-assignment of a handle whose object has count 1 leaves the count at
\* 1; (ii) when b is stored inside the object that a solely owns, that
\* object is deleted, b's object is not, and its count and the number of
\* handles on it are what they were (a's handle gained, the deleted
\* record's handle lost).
C4_AssignIncrefsFirst ==
    /\ last.op \in {"Schedule=", "Schedule=nested"} =>
        /\ scheds[last.h] = last.out
        /\ heap[last.out].st = "live" /\ heap[last.out].destroyed = 0
    /\ last.op = "Schedule=" /\ last.h = last.src /\ last.pre = 1 => heap[last.out].ref_count = 1
    /\ last.op = "Schedule=nested" /\ last.h = last.src /\ last.oldpre = 1 =>
        /\ heap[last.old].st = "dead" /\ heap[last.old].destroyed = 1
        /\ heap[last.out].ref_count = last.pre /\ HandleCount(last.out) = last.prehc

C4_Witness ==
    /\ last.op = "Schedule=nested" /\ last.h = last.src /\ last.oldpre = 1 /\ last.pre = 1
    /\ heap[last.old].st = "dead"
    /\ heap[last.out].st = "live" /\ heap[last.out].ref_count = 1 /\ HandleCount(last.out) = 1

C4_WitnessSelf == last.op = "Schedule=" /\ last.h = last.src /\ last.pre = 1 /\ heap[last.out].ref_count = 1

\* the Expr handle variables in scope that hold a node
DefinedExprs == {e \in 1..MaxExprs : exprs[e] # NONE /\ defined(exprs[e])}

C5_WitnessFresh == last.op = "Expr(int)" /\ last.src = 9 /\ \E b \in DefinedExprs \ {last.h} : heap[exprs[b]].kind = "IntImm" /\ heap[exprs[b]].value = 9 /\ ~same_as(exprs[last.h], exprs[b])

\* C6: every entry of small_int_cache keeps a ref_count of at least 1 and
\* is never deleted.
C6_CacheImmortal == \A a \in CacheAddr : heap[a].st = "static" /\ heap[a].ref_count >= 1 /\ heap[a].destroyed = 0

C6_Witness == last.op = "~Expr" /\ last.src \in CacheAddr /\ heap[last.src].ref_count = 1 /\ AllReleased

\* C7: on a defined handle, as<T>() is non-null iff the node's concrete
\* type is T, and then it is the handle's own pointer.
C7_DowncastExact ==
    last.op = "as" /\ defined(exprs[last.h]) =>
        /\ last.out # NULL <=> heap[exprs[last.h]].kind = last.T
        /\ last.out # NULL => last.out = exprs[last.h]

C7_Witness == last.op = "as" /\ defined(exprs[last.h]) /\ last.T = "FloatImm" /\ last.out = exprs[last.h]

C7_WitnessMismatch == last.op = "as" /\ defined(exprs[last.h]) /\ last.T = "IntImm" /\ heap[exprs[last.h]].kind = "FloatImm" /\ last.out = NULL

\* C8: as<T>() on an undefined handle never crashes and returns null.
C8_UndefinedAsReturnsNull == last.op = "as" /\ ~defined(exprs[last.h]) => fault = "none" /\ last.out = NULL

\* C9 as claimed: a decref at a count at or below zero ends in a fatal
\* assertion failure, and no count is ever negative.
C9_DecrefBelowZeroAsserts ==
    /\ \A n \in Addr : heap[n].ref_count >= 0
    /\ last.op = "decref" /\ last.pre <= 0 => fault = "assert"

\* C9 as amended: a decref at a count at or below zero is not detected; the
\* count goes negative, the object is not deleted, and the run carries on.
C9_DecrefBelowZeroSilent ==
    last.op = "decref" /\ last.pre <= 0 =>
        /\ fault = "none"
        /\ heap[last.src].ref_count = last.pre - 1 /\ heap[last.src].ref_count < 0
        /\ heap[last.src].st = "live" /\ heap[last.src].destroyed = 0

C9_Witness == last.op = "decref" /\ last.pre = 0 /\ heap[last.src].ref_count = 0 - 1 /\ heap[last.src].st = "live"

\* C10: type(), accept() and node_type() on an undefined handle end in a
\* fatal assertion failure.
C10_UndefinedDerefAsserts == last.op \in {"type", "accept", "node_type"} /\ ~defined(exprs[last.h]) => fault = "assert"

\* C11: with reference cycles built by hand and the cycle's contribution
\* taken out of the counts, no object is ever deleted twice, every release
\* terminates, and once the last handle variable is gone every object is
\* deleted (once) with a count of zero or, where a back reference was
\* released during teardown, a negative count.
C11_CycleTornDownOnce ==
    /\ \A n \in HeapAddr : heap[n].destroyed <= 1
    /\ AllReleased => \A n \in HeapAddr : heap[n].st # "free" => heap[n].st = "dead" /\ heap[n].destroyed = 1 /\ heap[n].ref_count <= 0

C11_Witness ==
    /\ AllReleased /\ last.op = "~Schedule"
    /\ \E n, m \in HeapAddr : n # m /\ heap[n].destroyed = 1 /\ heap[n].ref_count < 0 /\ heap[m].destroyed = 1 /\ heap[m].ref_count = 0

\* the schedule contents objects that exist
LiveSchedules == {n \in HeapAddr : heap[n].st = "live" /\ heap[n].kind = "ScheduleContents"}

\* C12: the contents a specialization record refers to are an object of
\* their own, and every field of a schedule contents object that the client
\* has not written through a handle on that very object still has the
\* value the object was created with (for a child: its parent's value at the
\* call of add_specialization), whatever was written to its parent, its
\* children or its siblings since.
C12_Independence ==
    \A p \in LiveSchedules :
        /\ \A f \in FieldNames \ heap[p].written : heap[p][f] = heap[p].snap[f]
        /\ \A i \in DOMAIN heap[p].specializations :
            LET c == heap[p].specializations[i].schedule IN c # p /\ c \in LiveSchedules

\* the parent was written, branched, and written again: the child keeps D0
C12_Witness ==
    /\ last.op = "set" /\ last.T = "store_level"
    /\ \E i \in DOMAIN heap[last.out].specializations :
        LET c == heap[last.out].specializations[i].schedule IN
        /\ heap[c].written = {} /\ heap[c].snap.store_level = "root"
        /\ heap[c].store_level = "root" /\ heap[last.out].store_level = "inline"

\* the child was written after the branch: the parent keeps its value
C12_WitnessChild ==
    /\ last.op = "push_back" /\ last.T = "dims"
    /\ \E p \in LiveSchedules : \E i \in DOMAIN heap[p].specializations :
        /\ heap[p].specializations[i].schedule = last.out
        /\ heap[last.out].dims = <<"x">> /\ heap[p].dims = <<>>

\* C13: right after S.add_specialization(cond) the new child holds, in
\* every field but the specialization list, the value S held when the call
\* was made (which S still holds), and the child's specialization list is
\* empty, also when S had specializations before.
C13_Snapshot ==
    last.op = "add_specialization" =>
        LET c == last.out IN
        /\ c \in LiveSchedules /\ heap[c].origin = "add_specialization"
        /\ FieldsOf(heap[c]) = heap[c].snap
        /\ FieldsOf(heap[c]) = FieldsOf(heap[scheds[last.h]])
        /\ heap[c].specializations = <<>>

C13_Witness ==
    /\ last.op = "add_specialization"
    /\ Len(heap[scheds[last.h]].specializations) = 2
    /\ heap[last.out].bounds = <<"x">> /\ heap[last.out].snap.bounds = <<"x">>
    /\ heap[last.out].specializations = <<>>

\* the parent had a reduction domain at the call: the child refers to it
C13_WitnessDomain ==
    /\ last.op = "add_specialization"
    /\ defined(heap[last.out].reduction_domain)
    /\ same_as(heap[last.out].reduction_domain, heap[scheds[last.h]].reduction_domain)

\* C14: S.add_specialization(cond) leaves S's earlier records as they were
\* and in their order, followed by exactly one new record whose condition
\* is cond and whose schedule is the newly allocated child; the reference
\* returned denotes that last record.
C14_AppendsOneRecord ==
    last.op = "add_specialization" =>
        LET specs == heap[scheds[last.h]].specializations
            n == Len(last.prespecs)
        IN  /\ Len(specs) = n + 1
            /\ SubSeq(specs, 1, n) = last.prespecs
            /\ specs[n + 1].schedule = last.out /\ heap[last.out].origin = "add_specialization"
            /\ \A i \in 1..n : specs[i].schedule # last.out
            /\ defined(specs[n + 1].condition)
            /\ heap[specs[n + 1].condition].kind = "IntImm" /\ heap[specs[n + 1].condition].value = last.src
            /\ last.ret = specs[n + 1]

C14_Witness ==
    /\ last.op = "add_specialization" /\ last.src = 8
    /\ Len(last.prespecs) = 1 /\ Len(heap[scheds[last.h]].specializations) = 2
    /\ heap[scheds[last.h]].specializations[1] = last.prespecs[1]
    /\ heap[scheds[last.h]].specializations[2].schedule # last.prespecs[1].schedule
    /\ last.ret.schedule = last.out

C14_WitnessFresh == last.op = "add_specialization" /\ last.prespecs = <<>> /\ Len(heap[scheds[last.h]].specializations) = 1

\* the Schedule handle variables in scope that refer to the object at n
Aliases(n) == {g \in DOMAIN scheds : scheds[g] = n}

\* C15: a copy of a Schedule handle refers to the same contents as its
\* source; what is written through one handle (an element appended, a level
\* or flag assigned, the reduction domain set, a specialization added) is
\* what every handle on the same contents reads; and the contents of a
\* default-constructed Schedule are referred to by no other handle.
C15_SharedContents ==
    /\ last.op = "Schedule(copy)" => scheds[last.h] = scheds[last.src] /\ last.h # last.src
    /\ last.op = "Schedule()" => Aliases(scheds[last.h]) = {last.h} /\ HandleCount(scheds[last.h]) = 1
    /\ last.op \in {"push_back", "set", "set_reduction_domain", "add_specialization"} => last.h \in Aliases(scheds[last.h])
    /\ last.op = "push_back" => \A g \in Aliases(scheds[last.h]) : heap[scheds[g]][last.T] # <<>> /\ back(heap[scheds[g]][last.T]) = last.val
    /\ last.op = "set" => \A g \in Aliases(scheds[last.h]) : heap[scheds[g]][last.T] = last.val
    /\ last.op = "set_reduction_domain" => \A g \in Aliases(scheds[last.h]) : heap[scheds[g]].reduction_domain = last.out
    /\ last.op = "add_specialization" => \A g \in Aliases(scheds[last.h]) : heap[scheds[g]].specializations # <<>> /\ back(heap[scheds[g]].specializations).schedule = last.out

C15_Witness ==
    /\ last.op = "set" /\ last.T = "memoized" /\ last.val = TRUE
    /\ \E g \in Aliases(scheds[last.h]) \ {last.h} : heap[scheds[g]].memoized = TRUE

C15_WitnessDefault == last.op = "Schedule()" /\ \E g \in DOMAIN scheds : g # last.h /\ scheds[g] # NONE /\ heap[scheds[g]].origin = "Schedule" /\ scheds[g] # scheds[last.h]

\* Schedule::reduction_domain() through the handle variable g
reduction_domain(g) == heap[scheds[g]].reduction_domain

\* C16 as claimed: when a handle calls set_reduction_domain with a new
\* domain, every other handle that reported the same domain as the caller
\* before the call still reports that old domain.
C16_OnlyCallerObserves ==
    [][last'.op = "set_reduction_domain" /\ last'.out # reduction_domain(last'.h) =>
        \A g \in {g \in DOMAIN scheds : scheds[g] # NONE} :
            g # last'.h /\ same_as(reduction_domain(g), reduction_domain(last'.h)) => reduction_domain(g)' = reduction_domain(g)]_vars

\* C16 as amended: a copy of a Schedule handle reports the reduction domain
\* its source reports, and a new child the one its parent reports; after
\* set_reduction_domain every handle on the caller's contents (copies taken
\* before the call included) reports the new domain, and every handle on
\* other contents (specialization children, parents) reports what it did.
C16_SharedByContents ==
    /\ [](last.op = "Schedule(copy)" => same_as(reduction_domain(last.h), reduction_domain(last.src)))
    /\ [](last.op = "add_specialization" => same_as(heap[last.out].reduction_domain, reduction_domain(last.h)))
    /\ [][last'.op = "set_reduction_domain" =>
            \A g \in {g \in DOMAIN scheds : scheds[g] # NONE} :
                IF scheds[g] = scheds[last'.h] THEN reduction_domain(g)' = last'.out ELSE reduction_domain(g)' = reduction_domain(g)]_vars

\* a copy taken before the call reports the new domain; the child branched
\* before the call still reports the old one
C16_Witness ==
    /\ last.op = "set_reduction_domain" /\ defined(last.out)
    /\ \E g \in Aliases(scheds[last.h]) \ {last.h} : same_as(reduction_domain(g), last.out)
    /\ \E i \in DOMAIN heap[scheds[last.h]].specializations : ~same_as(heap[heap[scheds[last.h]].specializations[i].schedule].reduction_domain, last.out)

\* C17: ReductionDomain(domain) allocates a contents object that did not
\* exist before and stores the given list in it, and no step changes the
\* variable list of a contents object that exists before and after the step.
C17_ContentsImmutable ==
    [][/\ last'.op = "ReductionDomain(domain)" =>
            heap[last'.out].st = "free" /\ heap'[last'.out].st = "live" /\ heap'[last'.out].domain = last'.val
       /\ \A a \in HeapAddr : heap[a].st = "live" /\ heap[a].kind = "ReductionDomainContents" /\ heap'[a].st = "live" =>
            heap'[a].domain = heap[a].domain]_vars

\* a ReductionDomain has just been built from one list while a Schedule holds
\* another contents object with a different list
C17_Witness ==
    /\ last.op = "ReductionDomain(domain)"
    /\ \E s \in DOMAIN scheds : /\ scheds[s] # NONE /\ defined(reduction_domain(s)) /\ reduction_domain(s) # last.out
                                /\ heap[reduction_domain(s)].st = "live" /\ heap[reduction_domain(s)].domain # last.val

\* the handle variables in scope
Keys == {e \in DOMAIN exprs : exprs[e] # NONE}

\* C18: each comparator is a strict weak order over the handles in scope,
\* undefined ones included: irreflexive, transitive, and two handles are
\* incomparable exactly when they are same_as(); the value a comparison
\* returned is the order of the two addresses.
C18_StrictWeakOrder ==
    /\ \A cmp \in Comparators : \A a \in Keys, b \in Keys :
        /\ ~Compare(cmp, exprs[a], exprs[a])
        /\ \A c \in Keys : Compare(cmp, exprs[a], exprs[b]) /\ Compare(cmp, exprs[b], exprs[c]) => Compare(cmp, exprs[a], exprs[c])
        /\ (~Compare(cmp, exprs[a], exprs[b]) /\ ~Compare(cmp, exprs[b], exprs[a])) <=> same_as(exprs[a], exprs[b])
    /\ last.op = "compare" => (last.val <=> exprs[last.h] < exprs[last.src])

\* a comparison of handles to two distinct nodes returned true while a copy
\* of the lower handle is in scope
C18_Witness ==
    /\ last.op = "compare" /\ last.val = TRUE /\ defined(exprs[last.h])
    /\ \E c \in Keys \ {last.h, last.src} : same_as(exprs[c], exprs[last.h])

\* an undefined handle compared below a defined one, and two undefined
\* handles are one key
C18_WitnessUndefined ==
    /\ last.op = "compare" /\ last.val = TRUE /\ ~defined(exprs[last.h])
    /\ \E c \in Keys \ {last.h, last.src} : ~defined(exprs[c])

\* the handles that point at n, those of the threads included
RaceHandles(n) == HandleCount(n) + Cardinality({t \in Threads : threads[t].h = n})

\* C19: the write back of a thread's ref_count++ / ref_count-- stores the
\* count the thread loaded plus or minus one, whatever other threads stored
\* in between; as long as no thread has written back over a count that
\* changed after it loaded it, the count of every heap node equals its
\* handles whenever the threads are between operations.
C19_NotAtomic ==
    /\ [][\A t \in Threads : threads[t].pc \in {"incref", "decref"} /\ threads'[t].pc # threads[t].pc =>
            heap'[threads[t].h].ref_count = threads[t].reg + (IF threads[t].pc = "incref" THEN 1 ELSE -1)]_vars
    /\ [](Running /\ Quiescent /\ (\A t \in Threads : ~threads[t].stale) =>
            \A n \in HeapAddr : /\ heap[n].st = "live" => heap[n].ref_count = RaceHandles(n)
                                /\ heap[n].st = "dead" => RaceHandles(n) = 0)

\* a lost update: two threads have finished their operations on one node
\* and its count differs from the number of handles on it
C19_Witness ==
    /\ Running /\ Quiescent /\ \E t \in Threads : threads[t].stale
    /\ \E n \in HeapAddr : heap[n].st = "live" /\ heap[n].ref_count # RaceHandles(n)

\* a node destroyed while a handle still refers to it
C19_WitnessDestroyedWhileReferenced ==
    /\ fault = "none" /\ \E n \in HeapAddr : heap[n].st = "dead" /\ heap[n].destroyed = 1 /\ RaceHandles(n) > 0

\* a node no handle refers to that is never destroyed
C19_WitnessNeverDestroyed ==
    /\ Running /\ Quiescent /\ \E n \in HeapAddr : heap[n].st = "live" /\ RaceHandles(n) = 0 /\ heap[n].ref_count > 0

\* C20: Expr(float), Expr(double) and Expr(string) each leave the new
\* handle on a node that did not exist before the call, of the literal's
\* kind, type and value, that no other handle refers to, whatever literals
\* of equal value exist; a copy of a handle is same_as() its source.
C20_NeverInterns ==
    /\ [][last'.op \in {"Expr(float)", "Expr(double)", "Expr(string)"} =>
            heap[last'.out].st = "free" /\ heap'[last'.out].st = "live"]_vars
    /\ [](last.op \in {"Expr(float)", "Expr(double)", "Expr(string)"} =>
            /\ exprs[last.h] = last.out /\ heap[last.out].ref_count = 1
            /\ \A g \in Keys \ {last.h} : ~same_as(exprs[g], exprs[last.h]))
    /\ [](last.op = "Expr(float)" => heap[last.out].kind = "FloatImm" /\ heap[last.out].type = "Float32" /\ heap[last.out].value = last.src)
    /\ [](last.op = "Expr(double)" => heap[last.out].kind = "FloatImm" /\ heap[last.out].type = "Float32" /\ heap[last.out].value = float_of_double(last.src))
    /\ [](last.op = "Expr(string)" => heap[last.out].kind = "StringImm" /\ heap[last.out].type = "Handle" /\ heap[last.out].str = last.val)
    /\ [](last.op = "Expr(copy)" => same_as(exprs[last.h], exprs[last.src]))

\* two float literals of one value built independently: distinct nodes
C20_Witness ==
    /\ last.op \in {"Expr(float)", "Expr(double)"}
    /\ \E g \in Keys \ {last.h} : /\ heap[exprs[g]].st = "live" /\ heap[exprs[g]].kind = "FloatImm"
                                  /\ heap[exprs[g]].value = heap[exprs[last.h]].value /\ ~same_as(exprs[g], exprs[last.h])

\* two string literals of one value built independently: distinct nodes
C20_WitnessString ==
    /\ last.op = "Expr(string)"
    /\ \E g \in Keys \ {last.h} : /\ heap[exprs[g]].st = "live" /\ heap[exprs[g]].kind = "StringImm"
                                  /\ heap[exprs[g]].str = heap[exprs[last.h]].str /\ ~same_as(exprs[g], exprs[last.h])

\* a copy of a float literal's handle
C20_WitnessCopy ==
    /\ last.op = "Expr(copy)" /\ defined(exprs[last.h]) /\ heap[exprs[last.h]].kind = "FloatImm" /\ heap[exprs[last.h]].ref_count = 2

\* C21: Expr(double) emits exactly one warning, which names the double and
\* suggests ".0f" for an integral value and "f" otherwise; it does not fail,
\* and leaves a defined handle on a FloatImm node that did not exist before
\* and holds the narrowed value.  Expr(int), Expr(float) and Expr(string)
\* emit nothing.
C21_DoubleWarnsOnce ==
    /\ [][last'.op = "Expr(double)" => heap[last'.out].st = "free" /\ heap'[last'.out].st = "live" /\ fault' = fault]_vars
    /\ [](last.op = "Expr(double)" =>
            /\ Len(last.warnings) = 1 /\ last.warnings[1].converting = last.src
            /\ last.warnings[1].suggest = (IF is_integral(last.src) THEN ".0f" ELSE "f")
            /\ Running /\ defined(exprs[last.h]) /\ exprs[last.h] = last.out
            /\ heap[last.out].kind = "FloatImm" /\ heap[last.out].value = float_of_double(last.src))
    /\ [](last.op \in {"Expr(int)", "Expr(float)", "Expr(string)"} => last.warnings = <<>> /\ Running)

\* a double that is not a float was narrowed, with its warning
C21_Witness ==
    /\ last.op = "Expr(double)" /\ last.src = <<16777217, 0>> /\ Len(last.warnings) = 1
    /\ heap[exprs[last.h]].value = 1266679808

\* a double with a fractional part, warned about with the "f" suffix
C21_WitnessFractional ==
    /\ last.op = "Expr(double)" /\ ~is_integral(last.src) /\ Len(last.warnings) = 1 /\ last.warnings[1].suggest = "f"

\* an int literal built without a warning
C21_WitnessInt == last.op = "Expr(int)" /\ last.warnings = <<>> /\ defined(exprs[last.h])

\* C23: the contents a default-constructed Schedule refers to have empty
\* splits, dims, storage_dims, bounds and specializations, an undefined
\* reduction domain, and memoized, touched and allow_race_conditions false,
\* whatever the schedules built before hold.
C23_DefaultUnscheduled ==
    last.op = "Schedule()" =>
        LET c == heap[scheds[last.h]] IN
        /\ scheds[last.h] = last.out /\ c.st = "live" /\ c.kind = "ScheduleContents"
        /\ c.splits = <<>> /\ c.dims = <<>> /\ c.storage_dims = <<>> /\ c.bounds = <<>> /\ c.specializations = <<>>
        /\ ~defined(c.reduction_domain)
        /\ ~c.memoized /\ ~c.touched /\ ~c.allow_race_conditions

\* a Schedule default-constructed while another one has a specialization
\* and a field the client wrote
C23_Witness ==
    /\ last.op = "Schedule()"
    /\ \E p \in LiveSchedules \ {last.out} : heap[p].written # {} /\ heap[p].specializations # <<>>

\* C24: a call of add_specialization through a handle on the contents p
\* leaves every member of p but the specialization list as it was, count
\* included, keeps p's earlier records, and leaves every other schedule
\* contents object (earlier children of p, the parent of p, schedules not
\* related to p) as it was in every member.
C24_FrameOfAddSpecialization ==
    [][last'.op = "add_specialization" =>
        LET p == scheds[last'.h] IN
        /\ [heap'[p] EXCEPT !.specializations = heap[p].specializations] = heap[p]
        /\ SubSeq(heap'[p].specializations, 1, Len(heap[p].specializations)) = heap[p].specializations
        /\ \A q \in LiveSchedules \ {p} : heap'[q] = heap[q]]_vars

\* add_specialization on a child through a handle on it, its parent in
\* scope with a field written and the child as its only record
C24_Witness ==
    /\ last.op = "add_specialization"
    /\ \E g \in DOMAIN scheds : /\ scheds[g] \in LiveSchedules \ {scheds[last.h]}
                                /\ heap[scheds[g]].written # {}
                                /\ Len(heap[scheds[g]].specializations) = 1
                                /\ heap[scheds[g]].specializations[1].schedule = scheds[last.h]

\* add_specialization on a parent that had a child and a written field
C24_WitnessSibling ==
    /\ last.op = "add_specialization" /\ Len(last.prespecs) = 1
    /\ heap[scheds[last.h]].written # {} /\ last.prespecs[1].schedule \in LiveSchedules

\* C25: across S.add_specialization(cond) the child gets the reduction
\* domain handle S has (same_as, no new ReductionDomainContents), and a
\* defined domain's count grows by exactly one; across set_reduction_domain
\* through a handle on the contents p, p gets the given domain and every
\* other schedule contents object (child or parent of p) keeps the domain
\* it had, which stays alive.
C25_DomainBranchedByHandle ==
    /\ [][last'.op = "add_specialization" =>
            LET d == reduction_domain(last'.h) IN
            /\ same_as(heap'[last'.out].reduction_domain, d) /\ same_as(heap'[scheds[last'.h]].reduction_domain, d)
            /\ defined(d) => heap'[d].ref_count = heap[d].ref_count + 1 /\ heap'[d].domain = heap[d].domain
            /\ \A a \in HeapAddr : heap'[a].kind = "ReductionDomainContents" => heap[a].kind = "ReductionDomainContents"]_vars
    /\ [][last'.op = "set_reduction_domain" =>
            /\ same_as(heap'[scheds[last'.h]].reduction_domain, last'.out)
            /\ \A q \in LiveSchedules \ {scheds[last'.h]} :
                /\ same_as(heap'[q].reduction_domain, heap[q].reduction_domain)
                /\ defined(heap[q].reduction_domain) => heap'[heap[q].reduction_domain].st = "live"]_vars

\* the parent was branched with a domain and then given another (undefined)
\* one: the child keeps the domain, which is alive
C25_Witness ==
    /\ last.op = "set_reduction_domain" /\ ~defined(reduction_domain(last.h))
    /\ \E i \in DOMAIN heap[scheds[last.h]].specializations :
        LET d == heap[heap[scheds[last.h]].specializations[i].schedule].reduction_domain
        IN  defined(d) /\ heap[d].st = "live" /\ heap[d].ref_count >= 1

\* the child was given a domain after the branch: the parent keeps its own
C25_WitnessChild ==
    /\ last.op = "set_reduction_domain" /\ defined(last.out)
    /\ \E p \in LiveSchedules : \E i \in DOMAIN heap[p].specializations :
        /\ heap[p].specializations[i].schedule = scheds[last.h]
        /\ ~same_as(heap[p].reduction_domain, last.out)

\* a parent with a defined domain was branched: one more reference
C25_WitnessShared ==
    /\ last.op = "add_specialization" /\ defined(reduction_domain(last.h))
    /\ same_as(heap[last.out].reduction_domain, reduction_domain(last.h))
    /\ heap[reduction_domain(last.h)].ref_count = 3

\* C26: Expr(int v) with v in -8..8 takes the pool entry when the entry's
\* ref_count is nonzero before the call, and otherwise a node allocated by
\* the call, of type Int(32) and value v; a pool entry with count zero has
\* no handle, a pool entry with handles has a count above their number, and
\* no pool entry is ever deleted.
C26_ZeroCountEntryNotHandedOut ==
    /\ [][last'.op = "Expr(int)" /\ last'.src \in -8..8 =>
            IF heap[small_int_cache(last'.src)].ref_count # 0
            THEN last'.out = small_int_cache(last'.src)
            ELSE /\ last'.out \in HeapAddr /\ heap[last'.out].st = "free"
                 /\ heap'[last'.out].st = "live" /\ heap'[last'.out].kind = "IntImm"
                 /\ heap'[last'.out].type = "Int32" /\ heap'[last'.out].value = last'.src]_vars
    /\ [](\A a \in CacheAddr :
            /\ heap[a].st = "static" /\ heap[a].destroyed = 0
            /\ heap[a].ref_count = 0 => HandleCount(a) = 0
            /\ HandleCount(a) > 0 => heap[a].ref_count > HandleCount(a))

\* Expr(8) while the entry for 8 has count zero and the entry for -8 has
\* been initialised: a heap node
C26_Witness ==
    /\ last.op = "Expr(int)" /\ last.src = 8 /\ last.out \in HeapAddr
    /\ heap[small_int_cache(8)].ref_count = 0 /\ heap[small_int_cache(0 - 8)].ref_count = 1
    /\ heap[last.out].value = 8 /\ heap[last.out].ref_count = 1

\* after the initialisation: Expr(8) is the pool entry, while the heap node
\* built for 8 before is still in scope
C26_WitnessAfter ==
    /\ last.op = "Expr(int)" /\ last.src = 8 /\ last.out = small_int_cache(8)
    /\ \E g \in Keys \ {last.h} : exprs[g] \in HeapAddr /\ heap[exprs[g]].st = "live" /\ heap[exprs[g]].value = 8

\* C27: an object goes from alive to deleted only in a step that decrements
\* its ref_count from 1 to 0 (a decref or the end of a handle), and every
\* such step on an object that is alive deletes it; a node a factory has
\* just returned is alive with count 0; a step that increments never
\* deletes; a decrement to a nonzero count, positive or negative, never
\* deletes.
C27_DestroyedOnlyAtOneToZero ==
    /\ [][\A n \in HeapAddr :
            /\ heap[n].st = "live" /\ heap'[n].st = "dead" =>
                /\ heap[n].ref_count = 1 /\ heap'[n].ref_count = 0 /\ heap'[n].destroyed = 1
                /\ last'.op \in {"decref", "~Expr"} /\ last'.src = n
            /\ heap[n].st = "live" /\ heap[n].ref_count = 1 /\ heap'[n].ref_count = 0 => heap'[n].st = "dead"
            /\ heap[n].st = "live" /\ heap'[n].ref_count # 0 => heap'[n].st = "live"
            /\ heap[n].st = "live" /\ heap'[n].ref_count > heap[n].ref_count => heap'[n].st = "live"
            /\ heap[n].st = "free" /\ heap'[n].st # "free" => last'.op = "make" /\ last'.out = n /\ heap'[n].st = "live" /\ heap'[n].ref_count = 0]_vars
    /\ [](last.op \in {"incref", "Expr(ptr)"} /\ last.out # NULL => \A n \in HeapAddr : heap[n].st = "dead" => n # last.src /\ n # last.out)

\* the handle that adopted a factory node went out of scope: deleted at the
\* decrement from 1 to 0
C27_Witness == last.op = "~Expr" /\ last.src \in HeapAddr /\ heap[last.src].st = "dead" /\ heap[last.src].ref_count = 0 /\ heap[last.src].destroyed = 1

\* a count that came back to 0 by an increment from -1: alive
C27_WitnessIncrefToZero == last.op = "incref" /\ last.pre = 0 - 1 /\ heap[last.src].ref_count = 0 /\ heap[last.src].st = "live"

\* a decrement from 2 to 1 and one from 0 to -1: alive
C27_WitnessNonzero == last.op = "decref" /\ last.pre \in {0, 2} /\ heap[last.src].st = "live"

\* the specialization lists of the objects that exist hold a record for c
Visible(c) == \E p \in LiveSchedules : \E i \in DOMAIN heap[p].specializations : heap[p].specializations[i].schedule = c

\* c is not the child of a call in progress that has yet to assign a
\* member to it or to clear its list
Filled(c) == call.pc # 0 /\ c = call.child => {Members[i] : i \in DOMAIN Members} \cup {"clear"} \subseteq call.done

\* C22: at every point of a call of add_specialization, between any two of
\* its statements, a child that a specialization list holds a record for
\* has been assigned every member and has had its list cleared, and so has
\* every child in a list read through specializations(); at the statement
\* that makes the record appear, the child holds the field values the parent
\* had when the call was made and an empty list; and the call as a whole
\* changes the heap as the one-step add_specialization does.
C22_RecordVisibleWhenFilled ==
    /\ [](call.child # NULL /\ Visible(call.child) => Filled(call.child))
    /\ [](last.op = "specializations" => \A i \in DOMAIN last.prespecs :
            /\ Filled(last.prespecs[i].schedule)
            /\ heap[last.prespecs[i].schedule].st = "live" /\ heap[last.prespecs[i].schedule].kind = "ScheduleContents")
    /\ [][call.pc # 0 /\ Len(heap'[call.parent].specializations) > Len(heap[call.parent].specializations) =>
            LET c == back(heap'[call.parent].specializations).schedule IN
            /\ c = call.child /\ heap'[c].st = "live"
            /\ FieldsOf(heap'[c]) = FieldsOf(call.start[call.parent])
            /\ FieldsOf(heap'[c]) = FieldsOf(heap'[call.parent])
            /\ heap'[c].specializations = <<>>]_vars
    /\ [][call.pc # 0 /\ call'.pc = 0 =>
            LET m == IntImm_make(call.start, call.x)
                hp1 == IntrusivePtr_ctor(m.heap, m.ptr)
            IN  heap' = Snapshot(IntrusivePtr_dtor(add_specialization(hp1, call.parent, m.ptr), m.ptr), NewAddr(hp1), call.start[call.parent])]_vars

\* in the middle of a call: the child carries the parent's records, lacks a
\* field the parent has, and no list holds a record for it
C22_Witness ==
    /\ call.pc # 0 /\ "specializations" \in call.done /\ "clear" \notin call.done
    /\ heap[call.child].specializations # <<>>
    /\ FieldsOf(heap[call.child]) # FieldsOf(heap[call.parent])
    /\ ~Visible(call.child)

\* the parent's list read in the middle of a call: the earlier record only
C22_WitnessObserved ==
    /\ last.op = "specializations" /\ scheds[last.h] = call.parent
    /\ call.pc # 0 /\ call.child # NULL /\ Len(last.prespecs) = 1 /\ last.prespecs[1].schedule # call.child

\* the list read after the push_back of the second record, before the return
C22_WitnessAppended ==
    /\ last.op = "specializations" /\ scheds[last.h] = call.parent
    /\ call.pc # 0 /\ Len(last.prespecs) = 2 /\ last.prespecs[2].schedule = call.child
    /\ heap[call.child].specializations = <<>> /\ heap[call.child].written = {} /\ heap[call.parent].written # {}

====
